---- MODULE Spec2Model ----
(***************************************************************************)
(* A model of twitch-eventsub-rest: the StreamerManager (streamers.py),    *)
(* the AnalyticsService over the MongoDB collections (analytics.py) and    *)
(* the status store (storage.py).                                          *)
(*                                                                         *)
(* Time is in seconds since an epoch.  Datetimes are UTC instants: pymongo *)
(* hands datetimes back naive in UTC, and the code's tz normalisation      *)
(* (analytics.py:159-163, 232-234) only drops the tzinfo of a UTC value,   *)
(* which keeps the instant.                                                *)
(*                                                                         *)
(* A document field is an integer, or Missing (the field is absent from    *)
(* the document) or Null (the field holds None).  The models are written   *)
(* with .dict(exclude_unset=True), so a field left to its default is       *)
(* absent from the stored document.                                        *)
(***************************************************************************)
EXTENDS Integers, Sequences, FiniteSets, TLC

VARIABLES
    now,        \* the wall clock, datetime.now()
    sessions,   \* collection stream_sessions: a set of documents
    nextId,     \* the next ObjectId the document store hands out
    snapshots,  \* collection stream_snapshots: a sequence of documents
    stats,      \* collection streamer_stats: broadcaster -> <<>> or <<row>>
    statuses,   \* storage.stream_statuses: broadcaster -> <<>> or <<status>>
    streamers,  \* storage.streamers: broadcaster -> <<>> or <<streamer>>
    events,     \* storage.events: the event log
    connected,  \* MemoryStorage.connected
    subscriptions, \* the EventSub subscriptions the upstream service holds
    nextSub,    \* the next subscription id the upstream service hands out
    tasks,      \* the lifespan, the initializer and the poller: where each is
    last        \* the operation that ran last, its arguments and its outcome

vars == <<now, sessions, nextId, snapshots, stats, statuses, streamers, events,
          connected, subscriptions, nextSub, tasks, last>>

----------------------------------------------------------------------------
(* Bounds and input sets *)

\* the broadcasters the operations of Spec and SpecStatus are called for
Broadcasters == {"b1", "b2"}

\* every broadcaster id of the model (the stores are keyed by these)
AllBroadcasters == {"b1", "b2", "b3", "b4", "b5"}

\* the instants the clock is observed at: 0, 90 s, 2 h, 3 h, 25 h
Instants == {0, 90, 90000, 100800}

\* session documents ever inserted
MaxSessions == 2

\* snapshot documents held
MaxSnapshots == 3

\* events the log holds
MaxEvents == 2

\* viewer counts a poll reports
ViewerCounts == {50, 80, 120}

\* max_age_hours values the routine sweep is called with
MaxAgeChoices == {1, 24}

----------------------------------------------------------------------------
(* Program constants *)

Missing == -1
Null == -2

SecondsPerMinute == 60
SecondsPerHour == 3600
DefaultMaxAgeHours == 24
FallbackAgeHours == 2
StaleMinutes == 10
PollSuppressMinutes == 15
MaxStoredEvents == 1000

None == <<>>
Some(x) == <<x>>
IsSome(o) == Len(o) = 1
Get(o) == o[1]

----------------------------------------------------------------------------
(* Arithmetic *)

\* int(x / d) of Python: truncation toward zero
TruncDiv(x, d) == IF x >= 0 THEN x \div d ELSE -((-x) \div d)

\* the integer nearest to n / d, ties to even: round() of Python (n >= 0, d > 0)
RoundDiv(n, d) ==
    LET q == n \div d
        r == n % d
    IN  IF 2 * r < d THEN q
        ELSE IF 2 * r > d THEN q + 1
        ELSE IF q % 2 = 0 THEN q ELSE q + 1

RECURSIVE SumOf(_, _)
\* the sum of f[x] over the finite set S
SumOf(f, S) ==
    IF S = {} THEN 0
    ELSE LET x == CHOOSE y \in S : TRUE
         IN  f[x] + SumOf(f, S \ {x})

MaxOf(S) == CHOOSE x \in S : \A y \in S : y <= x
MinOf(S) == CHOOSE x \in S : \A y \in S : x <= y

----------------------------------------------------------------------------
(* The document store: queries as MongoDB evaluates them *)

\* a filter {"field": None} matches a document whose field is null or absent
QueryIsNone(v) == v \in {Missing, Null}

\* {"$ne": ["$field", None]} inside an aggregation expression: an absent field
\* evaluates to "missing", which is not equal to null
AggNeNull(v) == v # Null

\* {"$ifNull": ["$field", d]}: null and absent both give d
IfNull(v, d) == IF v \in {Missing, Null} THEN d ELSE v

\* an open (active) session: the filter {"ended_at": None}
IsOpen(s) == QueryIsNone(s.ended_at)

SessionsOf(sess, b) == {s \in sess : s.broadcaster_id = b}
OpenSessionsOf(sess, b) == {s \in SessionsOf(sess, b) : IsOpen(s)}

\* StreamSession(...).dict(by_alias=True, exclude_unset=True): only the four
\* fields given to the constructor are stored (broadcaster_login and
\* broadcaster_name go with broadcaster_id); _id is the store's
NewSession(id, b, ts) ==
    [id |-> id, broadcaster_id |-> b, started_at |-> ts, ended_at |-> Missing,
     duration_minutes |-> Missing, max_viewers |-> Missing,
     avg_viewers |-> Missing, viewer_count_samples |-> None,
     updated_at |-> Missing]

\* StreamSnapshot(...).dict(by_alias=True, exclude_unset=True): captured_at is
\* left to its default_factory, so it is not stored.  inserted_at is no field
\* of the document: it records the instant insert_one ran
NewSnapshot(b, live, viewers) ==
    [broadcaster_id |-> b, is_live |-> live, viewer_count |-> viewers,
     captured_at |-> Missing, inserted_at |-> now]

\* the $match of _calculate_viewer_stats: a range comparison never matches an
\* absent field
InWindow(snap, b, from, to) ==
    /\ snap.broadcaster_id = b
    /\ snap.captured_at \notin {Missing, Null}
    /\ snap.captured_at >= from
    /\ snap.captured_at <= to
    /\ snap.is_live
    /\ snap.viewer_count \notin {Missing, Null}

\* the $match of the viewer pipeline of _update_streamer_stats
IsLiveSample(snap, b) ==
    /\ snap.broadcaster_id = b
    /\ snap.is_live
    /\ snap.viewer_count \notin {Missing, Null}

ViewerCountAt(snaps) == [i \in 1..Len(snaps) |-> snaps[i].viewer_count]

\* _calculate_viewer_stats: max, average (in hundredths, rounded) and the
\* samples of the snapshots in the session's window
calculate_viewer_stats(snaps, s, ended_at) ==
    LET M == {i \in 1..Len(snaps) :
                InWindow(snaps[i], s.broadcaster_id, s.started_at, ended_at)}
        InM(snap) == InWindow(snap, s.broadcaster_id, s.started_at, ended_at)
    IN  IF M = {}
        THEN [max_viewers |-> Null, avg_viewers |-> Null,
              viewer_count_samples |-> <<>>]
        ELSE [max_viewers |-> MaxOf({snaps[i].viewer_count : i \in M}),
              avg_viewers |->
                  RoundDiv(100 * SumOf(ViewerCountAt(snaps), M), Cardinality(M)),
              viewer_count_samples |->
                  SelectSeq(snaps, InM)]

\* the StreamerStats document _update_streamer_stats builds for b from the
\* session pipeline and the viewer pipeline; hours, average duration and
\* average viewers are in hundredths
StreamerStatsRow(sess, snaps, b) ==
    LET D == SessionsOf(sess, b)
        durOrZero == [s \in D |-> IfNull(s.duration_minutes, 0)]
        timed == {s \in D : s.duration_minutes \notin {Missing, Null}}
        total_minutes == SumOf(durOrZero, D)
        V == {i \in 1..Len(snaps) : IsLiveSample(snaps[i], b)}
    IN  [broadcaster_id |-> b,
         total_streams |-> Cardinality({s \in D : AggNeNull(s.ended_at)}),
         total_hours_streamed |-> RoundDiv(100 * total_minutes, 60),
         avg_stream_duration_minutes |->
             IF timed = {} THEN 0
             ELSE RoundDiv(100 * SumOf(durOrZero, timed), Cardinality(timed)),
         max_concurrent_viewers |->
             IF V = {} THEN 0 ELSE MaxOf({snaps[i].viewer_count : i \in V}),
         avg_viewers_all_time |->
             IF V = {} THEN 0
             ELSE RoundDiv(100 * SumOf(ViewerCountAt(snaps), V), Cardinality(V)),
         last_stream_at |-> MaxOf({s.started_at : s \in D}),
         first_seen_at |-> MinOf({s.started_at : s \in D})]

\* _update_streamer_stats: nothing is written when b has no session; else
\* the row is upserted with every field of the new document $set
update_streamer_stats(st, sess, snaps, b) ==
    IF SessionsOf(sess, b) = {} THEN st
    ELSE [st EXCEPT ![b] = Some(StreamerStatsRow(sess, snaps, b))]

\* find_one({"broadcaster_id": b, "ended_at": None}, sort started_at desc): the
\* open sessions of b with the latest start (the store picks among ties)
LatestOpen(sess, b) ==
    {s \in OpenSessionsOf(sess, b) :
        \A o \in OpenSessionsOf(sess, b) : o.started_at <= s.started_at}

\* the $set of end_stream_session applied to session s
CloseSession(snaps, s, ended_at) ==
    LET v == calculate_viewer_stats(snaps, s, ended_at)
    IN  [s EXCEPT !.ended_at = ended_at,
                  !.duration_minutes =
                      TruncDiv(ended_at - s.started_at, SecondsPerMinute),
                  !.updated_at = ended_at,
                  !.max_viewers = v.max_viewers,
                  !.avg_viewers = v.avg_viewers,
                  !.viewer_count_samples = Some(v.viewer_count_samples)]

----------------------------------------------------------------------------
(* Outcomes *)

NoReport == None

\* what `last` records of an operation: its name, the broadcaster and argument
\* it was called with, what it returned, whether it logged an error, whether
\* an exception left it, and the report of a diagnostic
Outcome(op, b, arg, ret, err) ==
    [op |-> op, b |-> b, arg |-> arg, ret |-> ret, err |-> err,
     raised |-> FALSE, report |-> NoReport]

\* where the tasks are when the service has started: the lifespan is serving,
\* the background initializer runs, no poller exists yet and no poll or
\* initial status is between its upstream answer and its write, and no call
\* of the analytics service is pending between two of its storage calls
TasksAtStart ==
    [lifespan |-> "up", init |-> "running", poller |-> "none",
     inflight |-> None, pending |-> None]

----------------------------------------------------------------------------
(* AnalyticsService *)

\* start_stream_session: insert_one of a new open session, whatever the
\* collection already holds for the broadcaster
start_stream_session(b, ts) ==
    /\ nextId <= MaxSessions
    /\ sessions' = sessions \cup {NewSession(nextId, b, ts)}
    /\ nextId' = nextId + 1

\* end_stream_session with a session found: update_one of that session, then
\* _update_streamer_stats over the updated collection
close_found(b, s) ==
    /\ sessions' = (sessions \ {s}) \cup {CloseSession(snapshots, s, now)}
    /\ stats' = update_streamer_stats(stats, sessions', snapshots, b)

\* an end_stream_session that fabricates a closed session when it finds no open
\* one; C4 must reject it
end_stream_session_fabricating(b) ==
    IF LatestOpen(sessions, b) = {}
    THEN /\ sessions' = sessions \cup
                {CloseSession(snapshots, NewSession(0, b, now), now)}
         /\ UNCHANGED stats
    ELSE \E s \in LatestOpen(sessions, b) : close_found(b, s)

\* end_stream_session: the latest open session of b is closed at now; with no
\* open session it returns at once (analytics.py:153-155)
end_stream_session(b) ==
    IF LatestOpen(sessions, b) = {}
    THEN UNCHANGED <<sessions, stats>>
    ELSE \E s \in LatestOpen(sessions, b) : close_found(b, s)

\* capture_stream_snapshot: insert_one of a snapshot of the polled stream
capture_stream_snapshot(b, live, viewers) ==
    /\ Len(snapshots) < MaxSnapshots
    /\ snapshots' = Append(snapshots, NewSnapshot(b, live, viewers))

\* a sweep filter that ignores ended_at; C7 must reject it
OldSessionsOfAnyState(sess, cutoff) == {s \in sess : s.started_at < cutoff}

\* the open sessions that started before the cutoff:
\* find({"ended_at": None, "started_at": {"$lt": cutoff_time}})
OldOpenSessions(sess, cutoff) ==
    {s \in sess : IsOpen(s) /\ s.started_at < cutoff}

\* cutoff_time = datetime.now(timezone.utc) - timedelta(hours=h)
CutoffTime(h) == now - h * SecondsPerHour

\* end_old_active_sessions(max_age_hours): delete_one of each old open session
end_old_active_sessions(max_age_hours) ==
    sessions' = sessions \ OldOpenSessions(sessions, CutoffTime(max_age_hours))

\* trigger_fallback_detection: the same with the fixed two hours
trigger_fallback_detection ==
    sessions' = sessions \ OldOpenSessions(sessions, CutoffTime(FallbackAgeHours))

\* deleted_count of a sweep: one for each session found whose delete_one
\* deleted a document
DeletedCount(h) == Cardinality(OldOpenSessions(sessions, CutoffTime(h)))

StartStreamSession(b, ts) ==
    /\ ts <= now
    /\ start_stream_session(b, ts)
    /\ last' = Outcome("start_stream_session", b, ts, nextId, FALSE)
    /\ UNCHANGED <<now, snapshots, stats, statuses, streamers, subscriptions, nextSub, events, connected,
                   tasks>>

EndStreamSession(b) ==
    /\ end_stream_session(b)
    /\ last' = Outcome("end_stream_session", b, now,
                       Cardinality(OpenSessionsOf(sessions, b)), FALSE)
    /\ UNCHANGED <<now, nextId, snapshots, statuses, streamers, subscriptions, nextSub, events, connected,
                   tasks>>

CaptureStreamSnapshot(b, live, viewers) ==
    /\ capture_stream_snapshot(b, live, viewers)
    /\ last' = Outcome("capture_stream_snapshot", b, viewers, 0, FALSE)
    /\ UNCHANGED <<now, sessions, nextId, stats, statuses, streamers, subscriptions, nextSub, events,
                   connected, tasks>>

\* a recomputation that stamps the sessions it has read; C34 must reject it
RecalculateStreamerStatsStamping(b) ==
    /\ stats' = update_streamer_stats(stats, sessions, snapshots, b)
    /\ sessions' = {IF s.broadcaster_id = b THEN [s EXCEPT !.updated_at = now]
                    ELSE s : s \in sessions}
    /\ last' = Outcome("recalculate_streamer_stats", b, Missing, 1, FALSE)
    /\ UNCHANGED <<now, nextId, snapshots, statuses, streamers, subscriptions,
                   nextSub, events, connected, tasks>>

\* recalculate_streamer_stats: _update_streamer_stats, True returned
RecalculateStreamerStats(b) ==
    /\ stats' = update_streamer_stats(stats, sessions, snapshots, b)
    /\ last' = Outcome("recalculate_streamer_stats", b, Missing, 1, FALSE)
    /\ UNCHANGED <<now, sessions, nextId, snapshots, statuses, streamers, subscriptions, nextSub, events,
                   connected, tasks>>

\* the routine sweep; it returns the number of sessions deleted
EndOldActiveSessions(max_age_hours) ==
    /\ end_old_active_sessions(max_age_hours)
    /\ last' = Outcome("end_old_active_sessions", "-", max_age_hours,
                       DeletedCount(max_age_hours), FALSE)
    /\ UNCHANGED <<now, nextId, snapshots, stats, statuses, streamers, subscriptions, nextSub, events,
                   connected, tasks>>

\* the aggressive sweep; it returns the number of sessions deleted
TriggerFallbackDetection ==
    /\ trigger_fallback_detection
    /\ last' = Outcome("trigger_fallback_detection", "-", FallbackAgeHours,
                       DeletedCount(FallbackAgeHours), FALSE)
    /\ UNCHANGED <<now, nextId, snapshots, stats, statuses, streamers, subscriptions, nextSub, events,
                   connected, tasks>>

\* the clock moves on to a later instant of I
Advance(I) ==
    /\ \E t \in I : t > now /\ now' = t
    /\ last' = Outcome("tick", "-", Missing, 0, FALSE)
    /\ UNCHANGED <<sessions, nextId, snapshots, stats, statuses, streamers, subscriptions, nextSub,
                   events, connected, tasks>>

----------------------------------------------------------------------------
(* The status store (MemoryStorage) *)

\* a StreamStatus; stream_data is None or the payload it was built from
Status(live, data, t, ev) ==
    [is_live |-> live, stream_data |-> data, last_updated |-> t,
     last_event_type |-> ev]

\* the event payload of a stream.online notification
EventData(ts) == [kind |-> "event", started_at |-> ts, viewer_count |-> Missing]

\* the stream object get_stream_info returns for a live stream
StreamData(viewers) ==
    [kind |-> "stream", started_at |-> Missing, viewer_count |-> viewers]

\* store_stream_status: the entry of the broadcaster is replaced
store_stream_status(b, st) == statuses' = [statuses EXCEPT ![b] = Some(st)]

\* store_event: append, and keep the last MaxStoredEvents
store_event(type, b) ==
    LET all == Append(events, [event_type |-> type, broadcaster_id |-> b])
    IN  events' = IF Len(all) > MaxStoredEvents
                  THEN SubSeq(all, Len(all) - MaxStoredEvents + 1, Len(all))
                  ELSE all

\* get_live_streams, then {stream.user_id for stream in live_streams}
LiveBroadcasterIds ==
    {b \in DOMAIN statuses : IsSome(statuses[b]) /\ Get(statuses[b]).is_live}

\* a status written to the store at the current time
StoreStreamStatus(b, live, ev) ==
    /\ store_stream_status(b,
           Status(live, IF live THEN Some(StreamData(50)) ELSE None, now, ev))
    /\ last' = Outcome("store_stream_status", b, Missing, 0, FALSE)
    /\ UNCHANGED <<now, sessions, nextId, snapshots, stats, streamers, subscriptions, nextSub, events,
                   connected, tasks>>

----------------------------------------------------------------------------
(* StreamerManager *)

\* streamers.py:5 imports the class: `from datetime import datetime`.  The
\* class has no attribute UTC (datetime.UTC is an attribute of the module), so
\* every `datetime.now(datetime.UTC)` of streamers.py raises AttributeError
ManagerNowRaises == TRUE

\* _handle_stream_online: building the StreamEvent evaluates
\* datetime.now(datetime.UTC) before anything is stored; the handler's
\* `except Exception` logs the error and returns
HandleStreamOnline(b, ts) ==
    /\ ts <= now
    /\ IF ManagerNowRaises
       THEN /\ last' = Outcome("stream.online", b, ts, 0, TRUE)
            /\ UNCHANGED <<sessions, nextId, statuses, events>>
       ELSE /\ Len(events) < MaxEvents
            /\ store_event("stream.online", b)
            /\ store_stream_status(b,
                   Status(TRUE, Some(EventData(ts)), now, "stream.online"))
            /\ start_stream_session(b, ts)
            /\ last' = Outcome("stream.online", b, ts, 0, FALSE)
    /\ UNCHANGED <<now, snapshots, stats, streamers, subscriptions, nextSub, connected,
                   tasks>>

\* _handle_stream_offline: the same, ending the session
HandleStreamOffline(b) ==
    /\ IF ManagerNowRaises
       THEN /\ last' = Outcome("stream.offline", b, Missing, 0, TRUE)
            /\ UNCHANGED <<sessions, stats, statuses, events>>
       ELSE /\ Len(events) < MaxEvents
            /\ store_event("stream.offline", b)
            /\ store_stream_status(b, Status(FALSE, None, now, "stream.offline"))
            /\ end_stream_session(b)
            /\ last' = Outcome("stream.offline", b, Missing, 0, FALSE)
    /\ UNCHANGED <<now, nextId, snapshots, streamers, subscriptions, nextSub, connected,
                   tasks>>

\* should_update of the poller: no status, a live status, or one older than
\* ten minutes
ShouldUpdate(cur) ==
    IF cur = None THEN TRUE
    ELSE IF Get(cur).is_live THEN TRUE
    ELSE now - Get(cur).last_updated > StaleMinutes * SecondsPerMinute

\* the poller keeps a live status that the API contradicts while it is less
\* than fifteen minutes old
Suppressed(cur, api) ==
    IF cur = None THEN FALSE
    ELSE /\ Get(cur).is_live
         /\ api = None
         /\ now - Get(cur).last_updated < PollSuppressMinutes * SecondsPerMinute

\* the status and the snapshot one poll of an active streamer writes
poll_update(b, api) ==
    LET cur == statuses[b]
    IN  IF ShouldUpdate(cur) /\ ~Suppressed(cur, api)
        THEN /\ store_stream_status(b,
                    Status(api # None, api, now,
                           IF cur = None THEN "none"
                           ELSE Get(cur).last_event_type))
             /\ IF api # None
                THEN capture_stream_snapshot(b, TRUE, Get(api).viewer_count)
                ELSE UNCHANGED snapshots
        ELSE UNCHANGED <<statuses, snapshots>>

\* a poll that stores whatever the API answers; C6 must reject it
PollStreamerEager(b, api) ==
    /\ IsSome(streamers[b])
    /\ store_stream_status(b,
           Status(api # None, api, now,
                  IF statuses[b] = None THEN "none"
                  ELSE Get(statuses[b]).last_event_type))
    /\ last' = Outcome("poll", b, IF api = None THEN 0 ELSE 1, 0, FALSE)
    /\ UNCHANGED <<now, sessions, nextId, snapshots, stats, streamers, subscriptions, nextSub, events,
                   connected, tasks>>

\* one iteration of _update_live_streams for an active streamer b, the API
\* answering api (None: no stream).  Each path through the iteration evaluates
\* datetime.now(datetime.UTC) before it writes (lines 331, 353, 369); the
\* iteration's `except Exception` logs the error and goes on
PollStreamer(b, api) ==
    /\ IsSome(streamers[b])
    /\ Get(streamers[b]).is_active
    /\ IF ManagerNowRaises
       THEN /\ last' = Outcome("poll", b, IF api = None THEN 0 ELSE 1, 0, TRUE)
            /\ UNCHANGED <<statuses, snapshots>>
       ELSE /\ poll_update(b, api)
            /\ last' = Outcome("poll", b, IF api = None THEN 0 ELSE 1, 0, FALSE)
    /\ UNCHANGED <<now, sessions, nextId, stats, streamers, subscriptions, nextSub, events, connected,
                   tasks>>

----------------------------------------------------------------------------
(* Diagnostics *)

\* a report that takes every open session for a missed offline event; C8 must
\* reject it
MissingReportOfAllOpen ==
    LET active == {s \in sessions : IsOpen(s)}
    IN  [missing_offline_events |->
             {[broadcaster_id |-> s.broadcaster_id, session_id |-> s.id,
               session_started |-> s.started_at] : s \in active},
         valid_active_sessions |-> 0,
         total_active_sessions |-> Cardinality(active),
         missing_count |-> Cardinality(active),
         missing_percentage |-> IF active = {} THEN 0 ELSE 1000]

\* the report of detect_missing_offline_events (missing_percentage in tenths;
\* hours_active of an entry is not modelled)
MissingReport ==
    LET active == {s \in sessions : IsOpen(s)}
        missing == {s \in active : s.broadcaster_id \notin LiveBroadcasterIds}
    IN  [missing_offline_events |->
             {[broadcaster_id |-> s.broadcaster_id, session_id |-> s.id,
               session_started |-> s.started_at] : s \in missing},
         valid_active_sessions |-> Cardinality(active \ missing),
         total_active_sessions |-> Cardinality(active),
         missing_count |-> Cardinality(missing),
         missing_percentage |->
             IF active = {} THEN 0
             ELSE RoundDiv(1000 * Cardinality(missing), Cardinality(active))]

\* detect_missing_offline_events: it connects the shared storage instance,
\* reads the live streams, and disconnects it again
DetectMissingOfflineEvents ==
    /\ connected' = FALSE
    /\ last' = [Outcome("detect_missing_offline_events", "-", Missing, 0, FALSE)
                   EXCEPT !.report = Some(MissingReport)]
    /\ UNCHANGED <<now, sessions, nextId, snapshots, stats, statuses, streamers, subscriptions, nextSub,
                   events, tasks>>

\* the counts both summaries report
SummaryCounts ==
    [total_streamers_tracked |->
         Cardinality({b \in DOMAIN stats : IsSome(stats[b])}),
     total_stream_sessions |-> Cardinality(sessions),
     active_sessions |-> Cardinality({s \in sessions : IsOpen(s)}),
     completed_sessions |->
         Cardinality(sessions) - Cardinality({s \in sessions : IsOpen(s)}),
     total_snapshots_captured |-> Len(snapshots)]

\* get_analytics_summary: counts over the three collections
GetAnalyticsSummary ==
    /\ last' = [Outcome("get_analytics_summary", "-", Missing, 0, FALSE)
                   EXCEPT !.report = Some(SummaryCounts)]
    /\ UNCHANGED <<now, sessions, nextId, snapshots, stats, statuses, streamers, subscriptions, nextSub,
                   events, connected, tasks>>

\* get_comprehensive_summary: it connects the shared storage instance, counts
\* the configured streamers, and disconnects it in its finally clause
GetComprehensiveSummary ==
    /\ connected' = FALSE
    /\ last' = [Outcome("get_comprehensive_summary", "-", Missing,
                        Cardinality({b \in DOMAIN streamers : IsSome(streamers[b])}),
                        FALSE)
                   EXCEPT !.report = Some(SummaryCounts)]
    /\ UNCHANGED <<now, sessions, nextId, snapshots, stats, statuses, streamers, subscriptions, nextSub,
                   events, tasks>>

----------------------------------------------------------------------------
(* Specifications *)

\* the snapshots collection at startup: empty, or a snapshot an earlier run of
\* the poller left
InitialSnapshots == {<<>>, <<NewSnapshot("b1", TRUE, 120)>>}

\* the state after startup: empty collections, the storage connected by the
\* application's lifespan, the configured streamers loaded and active
Init ==
    /\ now = 0
    /\ sessions = {}
    /\ nextId = 1
    /\ snapshots \in InitialSnapshots
    /\ stats = [b \in AllBroadcasters |-> None]
    /\ statuses = [b \in AllBroadcasters |-> None]
    /\ streamers = [b \in AllBroadcasters |->
                       IF b \in Broadcasters THEN Some([is_active |-> TRUE])
                       ELSE None]
    /\ events = <<>>
    /\ connected = TRUE
    /\ subscriptions = {}
    /\ nextSub = 1
    /\ tasks = TasksAtStart
    /\ last = Outcome("init", "-", Missing, 0, FALSE)

\* the clock of the session specification
Tick ==
    /\ Advance(Instants)
    /\ last' = Outcome("tick", "-", Missing, 0, FALSE)
    /\ UNCHANGED <<sessions, nextId, snapshots, stats, statuses, streamers, subscriptions, nextSub,
                   events, connected, tasks>>

\* notifications, the session operations and the sweeps
Next ==
    \/ Tick
    \/ \E b \in Broadcasters, ts \in Instants : HandleStreamOnline(b, ts)
    \/ \E b \in Broadcasters : HandleStreamOffline(b)
    \/ \E b \in Broadcasters, ts \in Instants : StartStreamSession(b, ts)
    \/ \E b \in Broadcasters : EndStreamSession(b)
    \/ \E b \in Broadcasters : RecalculateStreamerStats(b)
    \/ \E h \in MaxAgeChoices : EndOldActiveSessions(h)
    \/ TriggerFallbackDetection

Spec == Init /\ [][Next]_vars

\* the session operations and the sweeps alone, each session started with the
\* current instant
NextSweep ==
    \/ Tick
    \/ \E b \in Broadcasters : StartStreamSession(b, now)
    \/ \E b \in Broadcasters : EndStreamSession(b)
    \/ \E b \in Broadcasters : HandleStreamOffline(b)
    \/ \E h \in MaxAgeChoices : EndOldActiveSessions(h)
    \/ TriggerFallbackDetection

SpecSweep == Init /\ [][NextSweep]_vars

----------------------------------------------------------------------------
(* Claims about sessions *)

\* C1: when a stream.online event is handled for a broadcaster with no open
\* session, afterwards exactly one open session exists for that broadcaster
\* and its started_at is the event's started_at.
C1_OnlineOpensOneSession ==
    [][\A b \in Broadcasters, ts \in Instants :
          (HandleStreamOnline(b, ts) /\ OpenSessionsOf(sessions, b) = {})
          => \E s \in sessions' :
                 /\ OpenSessionsOf(sessions', b) = {s}
                 /\ s.started_at = ts]_vars

\* C2: when a stream.offline event is handled for a broadcaster with exactly
\* one open session, that session and no other is closed: ended_at is set,
\* duration_minutes is the whole minutes of ended_at - started_at rounded
\* down, the viewer figures are stored, and StreamerStats is recomputed.
C2_OfflineClosesTheSession ==
    [][\A b \in Broadcasters :
          (HandleStreamOffline(b) /\ Cardinality(OpenSessionsOf(sessions, b)) = 1)
          => \E s \in OpenSessionsOf(sessions, b), c \in sessions' :
                 /\ c.id = s.id
                 /\ c.ended_at = now
                 /\ c.duration_minutes = (now - s.started_at) \div 60
                 /\ c.max_viewers # Missing
                 /\ c.avg_viewers # Missing
                 /\ sessions' \ {c} = sessions \ {s}
                 /\ stats'[b] = Some(StreamerStatsRow(sessions', snapshots, b))]_vars

\* C3: in every reachable state each broadcaster has at most one session with
\* ended_at = null.
C3_AtMostOneOpenSession ==
    \A b \in Broadcasters : Cardinality(OpenSessionsOf(sessions, b)) <= 1

\* C4: when a stream.offline event is handled (or end_stream_session is
\* called) for a broadcaster with no open session, no session is created or
\* modified, StreamerStats is not rewritten, and no exception propagates.
C4_OfflineWithoutSessionIsNoOp ==
    [][\A b \in Broadcasters :
          ((HandleStreamOffline(b) \/ EndStreamSession(b))
              /\ OpenSessionsOf(sessions, b) = {})
          => /\ sessions' = sessions
             /\ stats' = stats
             /\ ~last'.raised]_vars

\* C4's case: end_stream_session has run for a broadcaster that has sessions
\* and a StreamerStats row but no open session
C4_Witness ==
    /\ last.op = "end_stream_session"
    /\ last.ret = 0
    /\ SessionsOf(sessions, last.b) # {}
    /\ IsSome(stats[last.b])

\* C7: the routine sweep with threshold h hours (default 24) and the aggressive
\* sweep (2 hours) each delete every open session started more than the
\* threshold before now, leave every younger open session and every closed
\* session, and return the number deleted; an open session three hours old
\* survives the routine sweep at its default and is deleted by the aggressive
\* sweep.
C7_SweepsDeleteExactlyOldOpen ==
    [][\A h \in MaxAgeChoices \cup {FallbackAgeHours} :
          ((EndOldActiveSessions(h) \/ (h = 2 /\ TriggerFallbackDetection))
           => /\ sessions' \subseteq sessions
              /\ \A s \in sessions :
                    s \notin sessions' <=>
                        (s.ended_at \in {Missing, Null}
                            /\ now - s.started_at > h * 3600)
              /\ last'.ret = Cardinality(sessions \ sessions')
              /\ \A s \in sessions :
                    (s.ended_at \in {Missing, Null}
                        /\ now - s.started_at = 3 * 3600)
                    => (s \in sessions' <=> h = 24))]_vars

\* C7's case: the routine sweep at its default threshold has deleted a session
\* and left an open session that is three hours old
C7_Witness ==
    /\ last.op = "end_old_active_sessions"
    /\ last.arg = DefaultMaxAgeHours
    /\ last.ret = 1
    /\ \E s \in sessions : IsOpen(s) /\ now - s.started_at = 3 * SecondsPerHour

\* C10: recomputing StreamerStats for a broadcaster yields a row that depends
\* only on the broadcaster's current sessions and snapshots, never on the row
\* stored before (with no sessions that is no row, as it is from an empty
\* store), and a second recomputation leaves the row identical.
C10_RecomputeIgnoresStoredRow ==
    [][\A b \in Broadcasters :
          RecalculateStreamerStats(b)
          => /\ stats'[b] = IF SessionsOf(sessions, b) = {} THEN None
                            ELSE Some(StreamerStatsRow(sessions, snapshots, b))
             /\ update_streamer_stats(stats', sessions, snapshots, b) = stats']_vars

----------------------------------------------------------------------------
(* The status specification: notifications, the poller and the status store *)

\* instants of the status specification: five-minute polls around the ten and
\* fifteen minute thresholds
PollInstants == {0, 300, 900, 1200}

\* what get_stream_info answers: no stream, or a stream with a viewer count
ApiAnswers == {None} \cup {Some(StreamData(v)) : v \in ViewerCounts}

\* provenance a stored status can carry
EventTypes == {"none", "stream.online", "stream.offline"}

TickStatus ==
    /\ Advance(PollInstants)
    /\ last' = Outcome("tick", "-", Missing, 0, FALSE)
    /\ UNCHANGED <<sessions, nextId, snapshots, stats, statuses, streamers, subscriptions, nextSub,
                   events, connected, tasks>>

NextStatus ==
    \/ TickStatus
    \/ \E b \in Broadcasters, live \in BOOLEAN, ev \in EventTypes :
          StoreStreamStatus(b, live, ev)
    \/ \E b \in Broadcasters, ts \in PollInstants : HandleStreamOnline(b, ts)
    \/ \E b \in Broadcasters : HandleStreamOffline(b)
    \/ \E b \in Broadcasters, api \in ApiAnswers : PollStreamer(b, api)

SpecStatus == Init /\ [][NextStatus]_vars

\* C5: handling a stream.online or stream.offline event always overwrites the
\* broadcaster's StreamStatus: afterwards is_live is true for online and false
\* for offline, whatever the previous status was.
C5_EventOverwritesStatus ==
    [][\A b \in Broadcasters :
          /\ (\E ts \in PollInstants : HandleStreamOnline(b, ts))
                => IF IsSome(statuses'[b])
                   THEN /\ Get(statuses'[b]).is_live
                        /\ Get(statuses'[b]).last_updated = now
                   ELSE FALSE
          /\ HandleStreamOffline(b)
                => IF IsSome(statuses'[b])
                   THEN /\ ~Get(statuses'[b]).is_live
                        /\ Get(statuses'[b]).last_updated = now
                   ELSE FALSE]_vars

\* C6: a poll that says a broadcaster is offline never changes the stored
\* status when it is live and was updated less than 15 minutes ago; a poll
\* flips a live status offline only if it is at least 15 minutes old.
C6_PollKeepsFreshLiveStatus ==
    [][\A b \in Broadcasters, api \in ApiAnswers :
          (PollStreamer(b, api) /\ IsSome(statuses[b]))
          => /\ (/\ api = None
                 /\ Get(statuses[b]).is_live
                 /\ now - Get(statuses[b]).last_updated < 15 * 60)
                => statuses' = statuses
             /\ (/\ Get(statuses[b]).is_live
                 /\ IsSome(statuses'[b])
                 /\ ~Get(statuses'[b]).is_live)
                => now - Get(statuses[b]).last_updated >= 15 * 60]_vars

\* C6's case: a poll has found a broadcaster offline whose stored status is
\* live and five minutes old
C6_Witness ==
    /\ last.op = "poll"
    /\ last.arg = 0
    /\ IsSome(statuses[last.b])
    /\ Get(statuses[last.b]).is_live
    /\ now - Get(statuses[last.b]).last_updated = 300

----------------------------------------------------------------------------
(* The diagnostics specification *)

\* the order of the broadcasters in the populations below
BroadcasterIndex == [b1 |-> 1, b2 |-> 2, b3 |-> 3, b4 |-> 4, b5 |-> 5]

\* a session collection: an open session for each broadcaster of S, and
\* optionally a closed session
SessionPopulation(S, withClosed) ==
    {NewSession(BroadcasterIndex[b], b, 0) : b \in S}
        \cup (IF withClosed
              THEN {CloseSession(<<>>, NewSession(6, "b1", 0), 0)}
              ELSE {})

\* a status store in which exactly the broadcasters of L are live
StatusPopulation(L) ==
    [b \in AllBroadcasters |->
        IF b \in L THEN Some(Status(TRUE, Some(StreamData(50)), 0, "stream.online"))
        ELSE IF b = "b5" THEN None
        ELSE Some(Status(FALSE, None, 0, "stream.offline"))]

\* the stores as an earlier run left them, the storage connected at startup
InitDetect ==
    /\ now = 0
    /\ \E S \in SUBSET AllBroadcasters, c \in BOOLEAN :
          sessions = SessionPopulation(S, c)
    /\ nextId = 7
    /\ snapshots = <<>>
    /\ stats = [b \in AllBroadcasters |-> None]
    /\ \E L \in SUBSET AllBroadcasters : statuses = StatusPopulation(L)
    /\ streamers = [b \in AllBroadcasters |->
                       IF b \in Broadcasters THEN Some([is_active |-> TRUE])
                       ELSE None]
    /\ events = <<>>
    /\ connected = TRUE
    /\ subscriptions = {}
    /\ nextSub = 1
    /\ tasks = TasksAtStart
    /\ last = Outcome("init", "-", Missing, 0, FALSE)

NextDetect ==
    \/ DetectMissingOfflineEvents
    \/ GetAnalyticsSummary
    \/ GetComprehensiveSummary

SpecDetect == InitDetect /\ [][NextDetect]_vars

\* C8: the detector reports exactly the open sessions whose broadcaster is not
\* in the live set: missing_count is their number, valid_active_sessions +
\* missing_count = total_active_sessions, missing_percentage is
\* 100 * missing_count / total_active_sessions rounded to one decimal (0 with
\* no open session); 5 open sessions with 2 broadcasters absent from the live
\* set give missing_count = 2 and missing_percentage = 40.0.
C8_DetectorReportsMissing ==
    [][DetectMissingOfflineEvents
       => LET r == Get(last'.report)
              open == {s \in sessions : s.ended_at \in {Missing, Null}}
              live == {b \in AllBroadcasters :
                          IF IsSome(statuses[b]) THEN Get(statuses[b]).is_live
                          ELSE FALSE}
              miss == {s \in open : s.broadcaster_id \notin live}
              p == r.missing_percentage
              d == 1000 * r.missing_count - p * r.total_active_sessions
          IN  /\ {e.session_id : e \in r.missing_offline_events}
                    = {s.id : s \in miss}
              /\ r.missing_count = Cardinality(miss)
              /\ r.total_active_sessions = Cardinality(open)
              /\ r.valid_active_sessions + r.missing_count
                    = r.total_active_sessions
              /\ open = {} => p = 0
              /\ 2 * d <= r.total_active_sessions
              /\ -2 * d <= r.total_active_sessions
              /\ (Cardinality(open) = 5 /\ Cardinality(miss) = 2)
                    => (r.missing_count = 2 /\ p = 400)]_vars

\* C8's case: the detector has run on 5 open sessions, 2 of them of
\* broadcasters absent from the live set
C8_Witness ==
    /\ last.op = "detect_missing_offline_events"
    /\ Cardinality({s \in sessions : IsOpen(s)}) = 5
    /\ Cardinality({s \in sessions : IsOpen(s)
                        /\ s.broadcaster_id \notin LiveBroadcasterIds}) = 2
    /\ Get(last.report).missing_count = 2
    /\ Get(last.report).missing_percentage = 400

\* C9: the read-only diagnostics change no state: sessions, snapshots,
\* StreamerStats, StreamStatus entries, broadcaster records and the connection
\* state of the shared status store are the same after the call as before.
C9_DiagnosticsChangeNothing ==
    [][(DetectMissingOfflineEvents \/ GetAnalyticsSummary
            \/ GetComprehensiveSummary)
       => UNCHANGED <<sessions, snapshots, stats, statuses, streamers, subscriptions, nextSub, events,
                      connected, tasks>>]_vars


----------------------------------------------------------------------------
(* Claims about the stored statistics *)

\* C11: in every state, each stored StreamerStats row equals what a
\* recomputation from the broadcaster's current sessions would produce for the
\* session-derived fields: the count of closed sessions, the total hours, the
\* average duration, and the first and last session start.
C11_StatsMatchSessionHistory ==
    \A b \in Broadcasters :
        IsSome(stats[b])
        => LET r == Get(stats[b])
               D == {s \in sessions : s.broadcaster_id = b}
               closed == {s \in D : s.ended_at \notin {Missing, Null}}
               minutes == [s \in D |->
                              IF s.duration_minutes \in {Missing, Null} THEN 0
                              ELSE s.duration_minutes]
           IN  /\ D # {}
               /\ r.total_streams = Cardinality(closed)
               /\ r.total_hours_streamed = RoundDiv(100 * SumOf(minutes, D), 60)
               /\ r.avg_stream_duration_minutes =
                      IF closed = {} THEN 0
                      ELSE RoundDiv(100 * SumOf(minutes, closed), Cardinality(closed))
               /\ r.last_stream_at = MaxOf({s.started_at : s \in D})
               /\ r.first_seen_at = MinOf({s.started_at : s \in D})


\* instants of the viewer specification: before, within and at the end of a
\* short session
ViewerInstants == {0, 90, 180}

\* the snapshots a poll captures: three viewer counts of one broadcaster, and
\* a snapshot of another broadcaster
ViewerSamples == {<<"b1", 50>>, <<"b1", 80>>, <<"b1", 120>>, <<"b2", 50>>}

TickViewers ==
    /\ Advance(ViewerInstants)
    /\ last' = Outcome("tick", "-", Missing, 0, FALSE)
    /\ UNCHANGED <<sessions, nextId, snapshots, stats, statuses, streamers,
                   subscriptions, nextSub, events, connected,
                   tasks>>

\* the sessions of one broadcaster with the snapshots the poller captures
NextViewers ==
    \/ TickViewers
    \/ StartStreamSession("b1", now)
    \/ \E x \in ViewerSamples : CaptureStreamSnapshot(x[1], TRUE, x[2])
    \/ EndStreamSession("b1")

SpecViewers == Init /\ [][NextViewers]_vars

\* C12: the windowed viewer statistics of a session are computed from exactly
\* the snapshots of its broadcaster captured within [start, end] that are live
\* and have a viewer count: their maximum, their average rounded to 2 decimals
\* (in hundredths here) and the list of samples; all null and empty when there
\* is none; samples 50, 120, 80 give max = 120 and avg = 83.33.
C12_WindowedViewerStats ==
    [][\A b \in Broadcasters :
          (EndStreamSession(b) /\ OpenSessionsOf(sessions, b) # {})
          => \E s \in OpenSessionsOf(sessions, b), c \in sessions' :
                LET W == {i \in 1..Len(snapshots) :
                            /\ snapshots[i].broadcaster_id = b
                            /\ snapshots[i].inserted_at >= s.started_at
                            /\ snapshots[i].inserted_at <= now
                            /\ snapshots[i].is_live
                            /\ snapshots[i].viewer_count \notin {Missing, Null}}
                    total == SumOf([i \in 1..Len(snapshots) |->
                                       snapshots[i].viewer_count], W)
                IN  /\ c.id = s.id
                    /\ c \notin sessions
                    /\ IF W = {}
                       THEN /\ c.max_viewers = Null
                            /\ c.avg_viewers = Null
                            /\ c.viewer_count_samples = Some(<<>>)
                       ELSE /\ c.max_viewers =
                                  MaxOf({snapshots[i].viewer_count : i \in W})
                            /\ 2 * (100 * total - c.avg_viewers * Cardinality(W))
                                  <= Cardinality(W)
                            /\ 2 * (c.avg_viewers * Cardinality(W) - 100 * total)
                                  <= Cardinality(W)
                            /\ Len(Get(c.viewer_count_samples)) = Cardinality(W)
                    /\ (/\ Cardinality(W) = 3
                        /\ {snapshots[i].viewer_count : i \in W} = {50, 80, 120})
                       => (c.max_viewers = 120 /\ c.avg_viewers = 8333)]_vars


----------------------------------------------------------------------------
(* Webhook signatures (eventsub.py) *)

\* the longest message id, timestamp and body
SigMaxLen == 1

\* the bytes strings are made of
Chars == {"a", "b"}

\* the strings of at most n bytes
StringsUpTo(n) == UNION {[1..k -> Chars] : k \in 0..n}

\* settings.WEBHOOK_SECRET, and a secret that is not it
WebhookSecret == "k1"
Secrets == {"k1", "k2"}

\* hmac.new(secret, message, sha256).hexdigest(): distinct keys or messages
\* give distinct digests
Hmac(secret, message) == [key |-> secret, msg |-> message]

\* a value of the signature header: a prefix and the hex digits after it
SignatureValue(prefix, digest) == [prefix |-> prefix, hexdigest |-> digest]

\* the signature headers a request can carry: none, or a prefix ("" when the
\* value has none) followed by the digest of some message under some key
SignatureHeaders ==
    {None} \cup
    {Some(SignatureValue(p, Hmac(k, m))) :
        p \in {"sha256=", "sha1=", ""}, k \in Secrets,
        m \in StringsUpTo(3 * SigMaxLen)}

\* a webhook request as verify_signature reads it; decodable says whether the
\* body is valid UTF-8
SigRequests ==
    [signature : SignatureHeaders,
     message_id : StringsUpTo(SigMaxLen),
     timestamp : StringsUpTo(SigMaxLen),
     body : StringsUpTo(SigMaxLen),
     decodable : BOOLEAN]

\* a verify_signature that leaves the timestamp out of the signed message;
\* C13 must reject it
verify_signature_without_timestamp(req, secret) ==
    IF req.signature = None THEN FALSE
    ELSE IF Get(req.signature).prefix # "sha256=" THEN FALSE
    ELSE IF ~req.decodable THEN FALSE
    ELSE Get(req.signature).hexdigest = Hmac(secret, req.message_id \o req.body)

\* verify_signature(headers, body, secret)
verify_signature(req, secret) ==
    IF req.signature = None THEN FALSE      \* "".startswith("sha256=")
    ELSE IF Get(req.signature).prefix # "sha256=" THEN FALSE
    ELSE IF ~req.decodable THEN FALSE       \* body.decode raises: except, False
    ELSE Get(req.signature).hexdigest =
             Hmac(secret, req.message_id \o req.timestamp \o req.body)

\* a request has arrived and waits for its signature check
InitSig ==
    /\ now = 0
    /\ sessions = {}
    /\ nextId = 1
    /\ snapshots = <<>>
    /\ stats = [b \in AllBroadcasters |-> None]
    /\ statuses = [b \in AllBroadcasters |-> None]
    /\ streamers = [b \in AllBroadcasters |->
                       IF b \in Broadcasters THEN Some([is_active |-> TRUE])
                       ELSE None]
    /\ events = <<>>
    /\ connected = TRUE
    /\ subscriptions = {}
    /\ nextSub = 1
    /\ tasks = TasksAtStart
    /\ \E req \in SigRequests :
          last = [Outcome("request", "-", Missing, 0, FALSE)
                     EXCEPT !.report = Some(req)]

\* the call of verify_signature on the waiting request, with the configured
\* secret
VerifySignature ==
    /\ last.op = "request"
    /\ last' = [last EXCEPT
                   !.op = "verify_signature",
                   !.ret = IF verify_signature(Get(last.report), WebhookSecret)
                           THEN 1 ELSE 0]
    /\ UNCHANGED <<now, sessions, nextId, snapshots, stats, statuses, streamers,
                   subscriptions, nextSub, events, connected,
                   tasks>>

NextSig == VerifySignature

SpecSig == InitSig /\ [][NextSig]_vars

\* the strings that differ from s in exactly one byte
OneByteChanged(s) ==
    {r \in [1..Len(s) -> Chars] : Cardinality({i \in 1..Len(s) : r[i] # s[i]}) = 1}

\* C13: verify_signature returns true if and only if the signature header is
\* present, starts with sha256=, and its remainder is the HMAC-SHA256 of
\* message id + timestamp + body under the shared secret; changing any single
\* byte of the body, the id or the timestamp makes it return false; in every
\* other case it returns false, and it never raises.
C13_SignatureVerifies ==
    last.op = "verify_signature"
    => LET q == Get(last.report)
       IN  /\ last.ret \in {0, 1}
           /\ ~last.raised
           /\ last.ret = 1 <=>
                 /\ q.signature # None
                 /\ q.decodable
                 /\ q.signature[1].prefix = "sha256="
                 /\ q.signature[1].hexdigest.key = "k1"
                 /\ q.signature[1].hexdigest.msg =
                        q.message_id \o q.timestamp \o q.body
           /\ last.ret = 1 =>
                 /\ \A x \in OneByteChanged(q.body) :
                       ~verify_signature([q EXCEPT !.body = x], WebhookSecret)
                 /\ \A x \in OneByteChanged(q.message_id) :
                       ~verify_signature([q EXCEPT !.message_id = x], WebhookSecret)
                 /\ \A x \in OneByteChanged(q.timestamp) :
                       ~verify_signature([q EXCEPT !.timestamp = x], WebhookSecret)

\* C13's case: a request whose signature verified, with a body, an id and a
\* timestamp of one byte each
C13_Witness ==
    /\ last.op = "verify_signature"
    /\ last.ret = 1
    /\ Len(Get(last.report).body) = 1
    /\ Len(Get(last.report).message_id) = 1
    /\ Len(Get(last.report).timestamp) = 1

----------------------------------------------------------------------------
(* HTTP routes (main.py, routes/streamers.py) *)

\* the challenge strings of a handshake
Challenges == {"c1", "c2"}

\* what request.json() gives for a body: no JSON at all, a payload with a
\* "challenge" key, or one without; valid says whether the payload passes the
\* pydantic model it is given to (EventSubChallenge or EventSubNotification)
Payload(kind, valid, challenge, type, b, ts) ==
    [kind |-> kind, valid |-> valid, challenge |-> challenge, type |-> type,
     b |-> b, ts |-> ts]

Payloads ==
    {Payload("not_json", FALSE, "-", "-", "-", Missing)} \cup
    {Payload("challenge", v, c, "-", "-", Missing) :
        v \in BOOLEAN, c \in Challenges} \cup
    {Payload("notification", FALSE, "-", "-", "-", Missing)} \cup
    {Payload("notification", TRUE, "-", t, b, 0) :
        t \in {"stream.online", "stream.offline", "channel.update"},
        b \in Broadcasters}

\* the signed part of the webhook requests: one message, with no signature,
\* the right one, one under another key, one without the prefix, and the
\* signature of another message
WebhookRequests ==
    {[signature |-> s, message_id |-> <<"a">>, timestamp |-> <<"b">>,
      body |-> <<"a">>, decodable |-> TRUE] :
        s \in {None,
               Some(SignatureValue("sha256=", Hmac("k1", <<"a", "b", "a">>))),
               Some(SignatureValue("sha256=", Hmac("k2", <<"a", "b", "a">>))),
               Some(SignatureValue("", Hmac("k1", <<"a", "b", "a">>))),
               Some(SignatureValue("sha256=", Hmac("k1", <<"a", "b", "b">>)))}}

\* the status code a route answers when an HTTPException with this code is
\* raised inside its try block: `except Exception` catches it and raises
\* HTTPException(500)
RaisedInsideTry(code) == 500

\* the response of a route as `last` records it
Response(op, b, req, verified, payload, code, content, ctype) ==
    [Outcome(op, b, Missing, code, code >= 500) EXCEPT
        !.raised = (code >= 400),
        !.report = Some([request |-> req, verified |-> verified,
                         payload |-> payload,
                         content |-> content, content_type |-> ctype])]

\* handle_event: dispatch on the subscription type
handle_event(type, b, ts) ==
    IF ManagerNowRaises \/ type \notin {"stream.online", "stream.offline"}
    THEN UNCHANGED <<sessions, nextId, stats, statuses, events>>
    ELSE IF type = "stream.online"
    THEN /\ Len(events) < MaxEvents
         /\ store_event("stream.online", b)
         /\ store_stream_status(b,
                Status(TRUE, Some(EventData(ts)), now, "stream.online"))
         /\ start_stream_session(b, ts)
         /\ UNCHANGED stats
    ELSE /\ Len(events) < MaxEvents
         /\ store_event("stream.offline", b)
         /\ store_stream_status(b, Status(FALSE, None, now, "stream.offline"))
         /\ end_stream_session(b)
         /\ UNCHANGED nextId

\* the answer to a handshake payload: EventSubChallenge(**payload), then the
\* challenge as a JSON document; C16 must reject it
answer_challenge_as_json(req, payload) ==
    /\ last' = Response("eventsub_webhook", payload.b, req, TRUE, payload,
                        IF payload.valid THEN 200 ELSE 500,
                        IF payload.valid THEN "success"
                        ELSE "Internal server error", "application/json")
    /\ UNCHANGED <<sessions, nextId, stats, statuses, events>>

\* the answer to a handshake payload: EventSubChallenge(**payload), then the
\* raw challenge
answer_challenge(req, payload) ==
    /\ last' = IF payload.valid
               THEN Response("eventsub_webhook", payload.b, req, TRUE, payload,
                             200, payload.challenge, "text/plain")
               ELSE Response("eventsub_webhook", payload.b, req, TRUE, payload,
                             500, "Internal server error", "application/json")
    /\ UNCHANGED <<sessions, nextId, stats, statuses, events>>

\* the body of eventsub_webhook, given what verify_signature returned
eventsub_webhook(req, verified, payload) ==
    IF ~verified
    THEN /\ last' = Response("eventsub_webhook", payload.b, req, FALSE, payload,
                             RaisedInsideTry(403), "Internal server error",
                             "application/json")
         /\ UNCHANGED <<sessions, nextId, stats, statuses, events>>
    ELSE IF payload.kind = "not_json"
    THEN /\ last' = Response("eventsub_webhook", payload.b, req, TRUE, payload,
                             500, "Internal server error", "application/json")
         /\ UNCHANGED <<sessions, nextId, stats, statuses, events>>
    ELSE IF payload.kind = "challenge"
    THEN answer_challenge(req, payload)
    ELSE IF ~payload.valid
    THEN /\ last' = Response("eventsub_webhook", payload.b, req, TRUE, payload,
                             500, "Internal server error", "application/json")
         /\ UNCHANGED <<sessions, nextId, stats, statuses, events>>
    ELSE /\ payload.ts <= now
         /\ handle_event(payload.type, payload.b, payload.ts)
         /\ last' = Response("eventsub_webhook", payload.b, req, TRUE, payload,
                             200, "success", "application/json")

\* a webhook route that does not check the signature; C14 must reject it
EventsubWebhookUnverified(req, payload) ==
    /\ eventsub_webhook(req, TRUE, payload)
    /\ UNCHANGED <<now, snapshots, streamers, subscriptions, nextSub,
                   connected, tasks>>

\* POST /webhooks/eventsub
EventsubWebhook(req, payload) ==
    /\ eventsub_webhook(req, verify_signature(req, WebhookSecret), payload)
    /\ UNCHANGED <<now, snapshots, streamers, subscriptions, nextSub,
                   connected, tasks>>

\* a lookup whose timestamp can be built: the fetched status is stored under
\* the username as typed; C30 must reject it
GetStreamerStatusStoring(username, user_found, api) ==
    /\ IF IsSome(statuses[username])
       THEN /\ last' = Response("get_streamer_status", username, "-", TRUE,
                                "stored", 200, "storage", "application/json")
            /\ UNCHANGED statuses
       ELSE IF streamers[username] = None /\ ~user_found
       THEN /\ last' = Response("get_streamer_status", username, "-", TRUE,
                                "not_found", RaisedInsideTry(404),
                                "Internal server error", "application/json")
            /\ UNCHANGED statuses
       ELSE /\ store_stream_status(username, Status(api # None, api, now, "none"))
            /\ last' = Response("get_streamer_status", username, "-", TRUE,
                                "fetched", 200, "twitch_api", "application/json")
    /\ UNCHANGED <<now, sessions, nextId, snapshots, stats, streamers,
                   subscriptions, nextSub, events, connected, tasks>>

\* GET /streamers/{username}/status over get_stream_status: the stored status,
\* or one fetched from Twitch for a known user
GetStreamerStatus(b, user_found, api) ==
    /\ IF IsSome(statuses[b])
       THEN /\ last' = Response("get_streamer_status", b, "-", TRUE, "stored", 200,
                                "storage", "application/json")
            /\ UNCHANGED statuses
       ELSE IF streamers[b] = None /\ ~user_found
       THEN /\ last' = Response("get_streamer_status", b, "-", TRUE, "not_found",
                                RaisedInsideTry(404), "Internal server error",
                                "application/json")
            /\ UNCHANGED statuses
       ELSE IF ManagerNowRaises
       THEN /\ last' = Response("get_streamer_status", b, "-", TRUE, "failed",
                                RaisedInsideTry(404), "Internal server error",
                                "application/json")
            /\ UNCHANGED statuses
       ELSE /\ store_stream_status(b, Status(api # None, api, now, "none"))
            /\ last' = Response("get_streamer_status", b, "-", TRUE, "fetched", 200,
                                "twitch_api", "application/json")
    /\ UNCHANGED <<now, sessions, nextId, snapshots, stats, streamers,
                   subscriptions, nextSub, events, connected,
                   tasks>>

InitHttp == Init /\ snapshots = <<>>

NextHttp ==
    \/ \E req \in WebhookRequests, payload \in Payloads :
          EventsubWebhook(req, payload)
    \/ \E b \in {"b1", "b3"}, user_found \in BOOLEAN,
          api \in {None, Some(StreamData(50))} :
          GetStreamerStatus(b, user_found, api)
    \/ \E b \in Broadcasters, live \in BOOLEAN :
          StoreStreamStatus(b, live, "none")
    \/ \E b \in Broadcasters : StartStreamSession(b, now)
    \/ \E b \in Broadcasters : EndStreamSession(b)

SpecHttp == InitHttp /\ [][NextHttp]_vars

\* C14: a webhook request whose signature does not verify never reaches the
\* core: it stores no event, changes no StreamStatus, and opens or closes no
\* session.
C14_UnverifiedRequestChangesNothing ==
    [][(/\ last'.op = "eventsub_webhook"
        /\ ~verify_signature(last'.report[1].request, WebhookSecret))
       => /\ UNCHANGED <<events, statuses, sessions, nextId, stats, snapshots>>
          /\ last'.ret >= 400]_vars

\* C14's case: a well-formed stream.online notification for a broadcaster with
\* a stored status and an open session was refused for its signature
C14_Witness ==
    /\ last.op = "eventsub_webhook"
    /\ ~verify_signature(Get(last.report).request, WebhookSecret)
    /\ Get(last.report).payload.kind = "notification"
    /\ Get(last.report).payload.valid
    /\ Get(last.report).payload.type = "stream.online"
    /\ IsSome(statuses[last.b])
    /\ OpenSessionsOf(sessions, last.b) # {}

\* C15: validation-style failures reach the HTTP caller with their own status
\* code and are not collapsed into the generic 500: a webhook request with an
\* invalid signature is answered 403, and a status lookup for a streamer that
\* cannot be found is answered 404.
C15_ValidationFailuresKeepTheirCode ==
    /\ (last.op = "eventsub_webhook"
           /\ ~verify_signature(Get(last.report).request, WebhookSecret))
          => last.ret = 403
    /\ (last.op = "get_streamer_status"
           /\ Get(last.report).payload = "not_found")
          => last.ret = 404

\* C16: a correctly signed webhook payload that contains a challenge and
\* passes as a handshake message (a string challenge with its subscription
\* object) is answered with exactly that challenge string as plain text and
\* status 200; no signed payload that contains a challenge is processed as a
\* notification: no event is stored and no status or session changes.
C16_HandshakeAnswered ==
    [][(/\ last'.op = "eventsub_webhook"
        /\ verify_signature(last'.report[1].request, WebhookSecret)
        /\ last'.report[1].payload.kind = "challenge")
       => /\ UNCHANGED <<events, statuses, sessions, nextId, stats, snapshots>>
          /\ last'.report[1].payload.valid
                => /\ last'.ret = 200
                   /\ last'.report[1].content = last'.report[1].payload.challenge
                   /\ last'.report[1].content_type = "text/plain"]_vars

\* C16's case: a signed handshake was answered while a status and an open
\* session were stored
C16_Witness ==
    /\ last.op = "eventsub_webhook"
    /\ verify_signature(Get(last.report).request, WebhookSecret)
    /\ Get(last.report).payload.kind = "challenge"
    /\ Get(last.report).payload.valid
    /\ last.ret = 200
    /\ \E b \in Broadcasters :
          IsSome(statuses[b]) /\ OpenSessionsOf(sessions, b) # {}

\* C16 as stated: every correctly signed payload that contains a challenge is
\* answered with that challenge as plain text and status 200
C16_AnyChallengeAnswered ==
    (/\ last.op = "eventsub_webhook"
     /\ verify_signature(Get(last.report).request, WebhookSecret)
     /\ Get(last.report).payload.kind = "challenge")
    => /\ last.ret = 200
       /\ Get(last.report).content = Get(last.report).payload.challenge
       /\ Get(last.report).content_type = "text/plain"

----------------------------------------------------------------------------
(* EventSub subscriptions (twitch_api.py, streamers.py) *)

\* the most subscriptions the upstream service ever issues
MaxSubs == 6

\* settings.WEBHOOK_URL, the callback of every subscription this service asks
\* for
WebhookUrl == "callback"

\* an upstream subscription
Sub(id, type, b, status) ==
    [id |-> id, type |-> type, b |-> b, status |-> status,
     callback |-> WebhookUrl]

SubTypes == {"stream.online", "stream.offline"}

\* the upstream subscriptions with this event type, broadcaster and callback
Matching(S, type, b) ==
    {s \in S : s.type = type /\ s.b = b /\ s.callback = WebhookUrl}

\* validate_subscription: the id is listed upstream with status "enabled"
validate_subscription(S, id) ==
    \E s \in S : s.id = id /\ s.status = "enabled"

\* the fields of the Streamer model
StreamerFields ==
    {"user_id", "username", "display_name", "subscription_id", "is_active"}

\* the Streamer attribute that holds the handle of a subscription type
HandleField(type) ==
    IF type = "stream.online" THEN "online_subscription_id"
    ELSE "offline_subscription_id"

\* pydantic refuses to set, and to read, an attribute that is not a field of
\* the model: ValueError on assignment, AttributeError on access
HasField(f) == f \in StreamerFields

\* the handle a stored streamer holds for a subscription type
HandleOf(st, type) ==
    IF HasField(HandleField(type)) THEN st[HandleField(type)] ELSE None

\* the answers the upstream service can give to a creation request: it
\* refuses a second subscription of the same type, broadcaster and callback
CreateAnswers(S, type, b) ==
    {"error"} \cup
    (IF Matching(S, type, b) = {} THEN {"created"} ELSE {"conflict"})

\* one try block of _create_subscriptions_for_streamer: the creation request,
\* the assignment of the returned id to the streamer, and on a conflict
\* _find_existing_subscription.  obtained says that the subscription was
\* created or found; success is the flag the code ends with
create_or_recover(S, n, type, b, answer, listed) ==
    LET found == IF listed THEN Matching(S, type, b) ELSE {}
    IN  IF answer = "created"
        THEN [subs |-> S \cup {Sub(n, type, b,
                                   "webhook_callback_verification_pending")},
              next |-> n + 1,
              obtained |-> TRUE,
              recovered |-> {},
              success |-> HasField(HandleField(type))]
        ELSE IF answer = "conflict"
        THEN [subs |-> S, next |-> n,
              obtained |-> found # {},
              recovered |-> {s.id : s \in found},
              success |-> found # {} /\ HasField(HandleField(type))]
        ELSE [subs |-> S, next |-> n, obtained |-> FALSE, recovered |-> {},
              success |-> FALSE]

\* _create_subscriptions_for_streamer: both types in turn, then is_active and
\* store_streamer
create_subscriptions_for_streamer(b, ao, lo, af, lf) ==
    LET on == create_or_recover(subscriptions, nextSub, "stream.online", b,
                                ao, lo)
        off == create_or_recover(on.subs, on.next, "stream.offline", b,
                                 af, lf)
    IN  /\ ao \in CreateAnswers(subscriptions, "stream.online", b)
        /\ af \in CreateAnswers(on.subs, "stream.offline", b)
        /\ off.next <= MaxSubs + 1
        /\ subscriptions' = off.subs
        /\ nextSub' = off.next
        /\ streamers' = [streamers EXCEPT
               ![b] = Some([is_active |-> on.success /\ off.success])]
        /\ last' = [Outcome("create_subscriptions", b, Missing, 0,
                            ~(on.success /\ off.success))
                       EXCEPT !.report =
                           Some([online |-> [answer |-> ao,
                                             obtained |-> on.obtained,
                                             recovered |-> on.recovered],
                                 offline |-> [answer |-> af,
                                              obtained |-> off.obtained,
                                              recovered |-> off.recovered]])]

\* add_streamer: a known streamer is returned as it is; an unknown Twitch user
\* raises; otherwise the streamer is stored and its subscriptions are created
AddStreamer(b, user_found, ao, lo, af, lf) ==
    /\ IF IsSome(streamers[b])
       THEN /\ last' = Outcome("add_streamer", b, Missing, 0, FALSE)
            /\ UNCHANGED <<streamers, subscriptions, nextSub>>
       ELSE IF ~user_found
       THEN /\ last' = [Outcome("add_streamer", b, Missing, 0, TRUE)
                           EXCEPT !.raised = TRUE]
            /\ UNCHANGED <<streamers, subscriptions, nextSub>>
       ELSE create_subscriptions_for_streamer(b, ao, lo, af, lf)
    /\ UNCHANGED <<now, sessions, nextId, snapshots, stats, statuses, events,
                   connected, tasks>>

\* the creation step of add_streamer for a streamer it has stored, active by
\* default
CreateSubscriptionsForStreamer(b, ao, lo, af, lf) ==
    /\ IsSome(streamers[b])
    /\ Get(streamers[b]).is_active
    /\ create_subscriptions_for_streamer(b, ao, lo, af, lf)
    /\ UNCHANGED <<now, sessions, nextId, snapshots, stats, statuses, events,
                   connected, tasks>>

\* the stored streamers a validation pass does not skip
ActiveStreamers ==
    {b \in DOMAIN streamers : IsSome(streamers[b]) /\ Get(streamers[b]).is_active}

\* a validation pass that asks for a new online subscription for an active
\* streamer without looking at the ones it has; C19 must reject it
validate_and_fix_recreating ==
    /\ nextSub <= MaxSubs
    /\ \E b \in ActiveStreamers :
          subscriptions' = subscriptions \cup
              {Sub(nextSub, "stream.online", b,
                   "webhook_callback_verification_pending")}
    /\ nextSub' = nextSub + 1
    /\ UNCHANGED streamers

\* validate_and_fix_subscriptions: inactive streamers are skipped; for the
\* first active one the pass reads streamer.online_subscription_id, which is
\* not a field of the model, and the AttributeError ends the pass in the outer
\* except clause before any call to the upstream service
validate_and_fix_subscriptions ==
    /\ \A b \in ActiveStreamers : ~HasField(HandleField("stream.online"))
    /\ UNCHANGED <<streamers, subscriptions, nextSub>>

\* one validation pass; arg counts the passes in a row, up to two
ValidateAndFixSubscriptions ==
    /\ validate_and_fix_subscriptions
    /\ last' = Outcome("validate_and_fix_subscriptions", "-",
                       IF last.op = "validate_and_fix_subscriptions"
                       THEN 2 ELSE 1,
                       0, ActiveStreamers # {})
    /\ UNCHANGED <<now, sessions, nextId, snapshots, stats, statuses, events,
                   connected, tasks>>

\* what the upstream service answers to a deletion: a status code, and
\* whether the text of the response mentions "404" or "not found"
DeleteStatuses == {204, 400, 404, 500}
DeleteTexts == {"plain", "mentions 404", "mentions not found"}

\* the upstream answers 204 for a subscription it has and 404 for one it does
\* not have; it can fail at any time
DeleteAnswers(S, id) ==
    {a \in [status : DeleteStatuses, text : DeleteTexts] :
        /\ a.status = 204 => (\E s \in S : s.id = id) /\ a.text = "plain"
        /\ a.status = 404 => ~(\E s \in S : s.id = id)}

\* delete_eventsub_subscription raises when the status is an error other than
\* 404, unless the message of the exception, which carries the status and the
\* response text, contains "404" or "not found"
delete_raises(answer) ==
    /\ answer.status \notin {204, 404}
    /\ answer.text = "plain"

\* delete_eventsub_subscription
DeleteEventsubSubscription(id, answer) ==
    /\ answer \in DeleteAnswers(subscriptions, id)
    /\ subscriptions' = IF answer.status = 204
                        THEN {s \in subscriptions : s.id # id}
                        ELSE subscriptions
    /\ last' = [Outcome("delete_eventsub_subscription", "-", Missing, 0,
                        delete_raises(answer))
                   EXCEPT !.raised = delete_raises(answer),
                          !.report = Some(answer)]
    /\ UNCHANGED <<now, sessions, nextId, snapshots, stats, statuses,
                   streamers, nextSub, events, connected,
                   tasks>>

\* the upstream service completes the handshake of a pending subscription
UpstreamEnables(id) ==
    /\ \E s \in subscriptions :
          /\ s.id = id
          /\ s.status = "webhook_callback_verification_pending"
          /\ subscriptions' = (subscriptions \ {s}) \cup
                                 {[s EXCEPT !.status = "enabled"]}
    /\ last' = Outcome("upstream_enables", "-", Missing, 0, FALSE)
    /\ UNCHANGED <<now, sessions, nextId, snapshots, stats, statuses,
                   streamers, nextSub, events, connected,
                   tasks>>

\* the upstream service revokes an enabled subscription
UpstreamRevokes(id) ==
    /\ \E s \in subscriptions :
          /\ s.id = id
          /\ s.status = "enabled"
          /\ subscriptions' = (subscriptions \ {s}) \cup
                                 {[s EXCEPT !.status = "authorization_revoked"]}
    /\ last' = Outcome("upstream_revokes", "-", Missing, 0, FALSE)
    /\ UNCHANGED <<now, sessions, nextId, snapshots, stats, statuses,
                   streamers, nextSub, events, connected,
                   tasks>>

\* what the upstream service holds for a broadcaster when the service starts:
\* nothing, both subscriptions enabled, or the online one revoked
SubsPopulation(b, kind) ==
    LET i == 2 * BroadcasterIndex[b] - 1
    IN  IF kind = "none" THEN {}
        ELSE {Sub(i, "stream.online", b,
                  IF kind = "enabled" THEN "enabled"
                  ELSE "authorization_revoked"),
              Sub(i + 1, "stream.offline", b, "enabled")}

InitSubs ==
    /\ now = 0
    /\ sessions = {}
    /\ nextId = 1
    /\ snapshots = <<>>
    /\ stats = [b \in AllBroadcasters |-> None]
    /\ statuses = [b \in AllBroadcasters |-> None]
    /\ \E A \in SUBSET Broadcasters :
          streamers = [b \in AllBroadcasters |->
                          IF b \in Broadcasters
                          THEN Some([is_active |-> b \in A])
                          ELSE None]
    /\ events = <<>>
    /\ connected = TRUE
    /\ \E k1 \in {"none", "enabled", "revoked"},
          k2 \in {"none", "enabled", "revoked"} :
          subscriptions = SubsPopulation("b1", k1) \cup SubsPopulation("b2", k2)
    /\ nextSub = 5
    /\ tasks = TasksAtStart
    /\ last = Outcome("init", "-", Missing, 0, FALSE)

NextSubs ==
    \/ \E user_found \in BOOLEAN, ao \in {"created", "conflict", "error"},
          lo \in BOOLEAN, af \in {"created", "conflict", "error"},
          lf \in BOOLEAN :
          AddStreamer("b3", user_found, ao, lo, af, lf)
    \/ \E b \in Broadcasters, ao \in {"created", "conflict", "error"},
          lo \in BOOLEAN, af \in {"created", "conflict", "error"},
          lf \in BOOLEAN :
          CreateSubscriptionsForStreamer(b, ao, lo, af, lf)
    \/ ValidateAndFixSubscriptions
    \/ \E id \in 1..MaxSubs : UpstreamEnables(id)
    \/ \E id \in 1..MaxSubs : UpstreamRevokes(id)

SpecSubs == InitSubs /\ [][NextSubs]_vars

NextDelete ==
    \/ \E id \in 1..MaxSubs, a \in [status : DeleteStatuses, text : DeleteTexts] :
          DeleteEventsubSubscription(id, a)
    \/ \E id \in 1..MaxSubs : UpstreamRevokes(id)

SpecDelete == InitSubs /\ [][NextDelete]_vars

\* what C17 counts as holding a subscription type: it was created, or it was
\* found after a conflict
Held(r) ==
    \/ r.answer = "created"
    \/ r.answer = "conflict" /\ r.obtained

\* C17: after the create-or-recover step runs for a broadcaster, the
\* broadcaster is stored as active if and only if, for each of stream.online
\* and stream.offline, the subscription was either created or, after a
\* conflict, recovered by finding an existing subscription with the same
\* event type, broadcaster id and callback URL; a conflict followed by a
\* successful lookup leaves the broadcaster active with the recovered handle
\* stored, never inactive.
C17_ActiveIffBothHeld ==
    last.op = "create_subscriptions"
    => LET r == Get(last.report)
           st == Get(streamers[last.b])
       IN  /\ st.is_active <=> (Held(r.online) /\ Held(r.offline))
           /\ \A type \in SubTypes :
                 LET rt == IF type = "stream.online" THEN r.online
                           ELSE r.offline
                 IN  (st.is_active /\ rt.answer = "conflict")
                        => /\ IsSome(HandleOf(st, type))
                           /\ Get(HandleOf(st, type)) \in rt.recovered

\* the stored handle of the streamer refers to an upstream subscription of
\* this type for this broadcaster
HandleRefers(st, S, type, b) ==
    /\ IsSome(HandleOf(st, type))
    /\ \E s \in S : s.id = Get(HandleOf(st, type)) /\ s.type = type /\ s.b = b

\* the stored handle of the streamer is absent, missing upstream or not enabled
HandleInvalid(st, S, type) ==
    \/ HandleOf(st, type) = None
    \/ ~validate_subscription(S, Get(HandleOf(st, type)))

\* C18: after a validateAll pass during which the upstream service answers
\* every call, every broadcaster that was active at the start and whose stored
\* online or offline handle was missing upstream or not in enabled status has
\* had that handle deleted and replaced, so that both of its stored handles
\* refer to upstream subscriptions of the matching event type for that
\* broadcaster.
C18_ValidateRepairsHandles ==
    [][last'.op = "validate_and_fix_subscriptions"
       => \A b \in ActiveStreamers :
             (\E type \in SubTypes :
                 HandleInvalid(Get(streamers[b]), subscriptions, type))
             => \A type \in SubTypes :
                   HandleRefers(Get(streamers'[b]), subscriptions', type, b)]_vars

\* every active streamer has an enabled upstream subscription of each type
AllActiveEnabled ==
    \A b \in ActiveStreamers, type \in SubTypes :
        \E s \in Matching(subscriptions, type, b) : s.status = "enabled"

C20_DeleteRaisesOnFailure ==
    last.op = "delete_eventsub_subscription"
    => (last.raised <=> Get(last.report).status \notin {204, 404})

\* C21: if creating a broadcaster's subscriptions fails because of a transient
\* upstream error, the creation is retried for that broadcaster on a later
\* validateAll pass, so that once the upstream service answers again the
\* broadcaster ends up active with both handles stored.  Here: the pass that
\* follows the failed creation, with the upstream service answering.
C21_FailedCreationIsRetried ==
    [][(/\ last.op = "create_subscriptions"
        /\ \/ last.report[1].online.answer = "error"
           \/ last.report[1].offline.answer = "error"
        /\ last'.op = "validate_and_fix_subscriptions")
       => /\ streamers'[last.b][1].is_active
          /\ \A type \in SubTypes :
                HandleRefers(streamers'[last.b][1], subscriptions', type,
                             last.b)]_vars

----------------------------------------------------------------------------
(* Removing a streamer (streamers.py) *)

\* a removal that forgets the streamer and keeps its cached status; C40 must
\* reject it
RemoveStreamerKeepingStatus(b) ==
    /\ IF streamers[b] = None
       THEN /\ last' = [Outcome("remove_streamer", b, 0, 0, TRUE)
                           EXCEPT !.raised = TRUE]
            /\ UNCHANGED streamers
       ELSE /\ streamers' = [streamers EXCEPT ![b] = None]
            /\ last' = Outcome("remove_streamer", b, 1, 0, FALSE)
    /\ UNCHANGED <<now, sessions, nextId, snapshots, stats, statuses,
                   subscriptions, nextSub, events, connected, tasks>>

\* remove_streamer: an unknown streamer raises ValueError; for a known one the
\* first statement after the lookup reads streamer.online_subscription_id,
\* which is not a field of the model, and the AttributeError leaves the
\* function before any deletion and before storage.remove_streamer.  arg is 1
\* when the streamer was tracked
RemoveStreamer(b) ==
    /\ IF streamers[b] = None
       THEN /\ last' = [Outcome("remove_streamer", b, 0, 0, TRUE)
                           EXCEPT !.raised = TRUE]
            /\ UNCHANGED <<streamers, statuses, subscriptions>>
       ELSE IF ~HasField(HandleField("stream.online"))
       THEN /\ last' = [Outcome("remove_streamer", b, 1, 0, TRUE)
                           EXCEPT !.raised = TRUE]
            /\ UNCHANGED <<streamers, statuses, subscriptions>>
       ELSE /\ streamers' = [streamers EXCEPT ![b] = None]
            /\ statuses' = [statuses EXCEPT ![b] = None]
            /\ subscriptions' =
                  {s \in subscriptions :
                      \A type \in SubTypes :
                          HandleOf(Get(streamers[b]), type) # Some(s.id)}
            /\ last' = Outcome("remove_streamer", b, 1, 0, FALSE)
    /\ UNCHANGED <<now, sessions, nextId, snapshots, stats, nextSub, events,
                   connected, tasks>>

NextRemove ==
    \/ \E b \in Broadcasters \cup {"b3"} : RemoveStreamer(b)
    \/ \E user_found \in BOOLEAN, ao \in {"created", "conflict", "error"},
          af \in {"created", "conflict", "error"} :
          AddStreamer("b3", user_found, ao, TRUE, af, TRUE)
    \/ \E b \in Broadcasters, live \in BOOLEAN :
          StoreStreamStatus(b, live, "none")
    \/ \E id \in 1..MaxSubs : UpstreamRevokes(id)

SpecRemove == InitSubs /\ [][NextRemove]_vars

\* C22: removing a tracked broadcaster attempts to delete each of its stored
\* upstream subscriptions and then removes the broadcaster record and its
\* StreamStatus from storage, also when an upstream deletion fails;
\* afterwards the broadcaster no longer appears in the list of tracked
\* broadcasters.
C22_RemoveForgetsTheBroadcaster ==
    (last.op = "remove_streamer" /\ last.arg = 1)
    => /\ streamers[last.b] = None
       /\ statuses[last.b] = None

----------------------------------------------------------------------------
(* The background tasks (main.py lifespan, streamers.py) *)

\* a fetch whose write is still to come: the task, the streamer, the status
\* the task read before it asked, and what get_stream_info answered
Inflight(task, b, cur, api) ==
    [task |-> task, b |-> b, cur |-> cur, api |-> api]

\* should_update is an `or` of three operands; the third one, the age of the
\* status, is evaluated only for a stored status that is not live
EvaluatesAge(cur) == cur # None /\ ~Get(cur).is_live

\* the iteration of _update_live_streams for streamer b up to the answer of
\* get_stream_info: inactive streamers are skipped; the age test evaluates
\* datetime.now(datetime.UTC) and ends the iteration in its except clause.
\* arg is 1 when get_stream_info was called
PollerFetch(b, api) ==
    /\ tasks.poller = "running"
    /\ tasks.inflight = None
    /\ IsSome(streamers[b])
    /\ LET cur == statuses[b]
           active == Get(streamers[b]).is_active
           raises == active /\ EvaluatesAge(cur) /\ ManagerNowRaises
           queried == active /\ ~raises /\ ShouldUpdate(cur)
       IN  /\ tasks' = [tasks EXCEPT
                  !.inflight = IF queried
                               THEN Some(Inflight("poller", b, cur, api))
                               ELSE None]
           /\ last' = Outcome("poll_fetch", b, IF queried THEN 1 ELSE 0, 0,
                              raises)
    /\ UNCHANGED <<now, sessions, nextId, snapshots, stats, statuses,
                   streamers, subscriptions, nextSub, events, connected>>

\* the rest of the iteration, after get_stream_info has answered: the
\* suppression test (line 353) and the construction of the new status (line
\* 369) evaluate datetime.now(datetime.UTC).  The new status carries the
\* last_event_type of the status read before the fetch
poller_store(f) ==
    IF ManagerNowRaises \/ Suppressed(f.cur, f.api)
    THEN UNCHANGED <<statuses, snapshots>>
    ELSE /\ store_stream_status(f.b,
                Status(f.api # None, f.api, now,
                       IF f.cur = None THEN "none"
                       ELSE Get(f.cur).last_event_type))
         /\ IF f.api # None
            THEN capture_stream_snapshot(f.b, TRUE, Get(f.api).viewer_count)
            ELSE UNCHANGED snapshots

PollerStore ==
    /\ tasks.poller = "running"
    /\ IsSome(tasks.inflight)
    /\ Get(tasks.inflight).task = "poller"
    /\ poller_store(Get(tasks.inflight))
    /\ tasks' = [tasks EXCEPT !.inflight = None]
    /\ last' = [Outcome("poll_store", Get(tasks.inflight).b, Missing, 0,
                        ManagerNowRaises)
                   EXCEPT !.report = Some(Get(tasks.inflight))]
    /\ UNCHANGED <<now, sessions, nextId, stats, streamers, subscriptions,
                   nextSub, events, connected>>

\* _initialize_streamer_statuses for an active streamer, up to the answer of
\* get_stream_info
InitializerFetch(b, api) ==
    /\ tasks.init = "running"
    /\ tasks.inflight = None
    /\ IsSome(streamers[b])
    /\ Get(streamers[b]).is_active
    /\ tasks' = [tasks EXCEPT !.inflight = Some(Inflight("init", b, None, api))]
    /\ last' = Outcome("init_fetch", b, 1, 0, FALSE)
    /\ UNCHANGED <<now, sessions, nextId, snapshots, stats, statuses,
                   streamers, subscriptions, nextSub, events, connected>>

\* the rest of that iteration: the initial status is built with
\* datetime.now(datetime.UTC) (line 435) and stored
InitializerStore ==
    /\ tasks.init = "running"
    /\ IsSome(tasks.inflight)
    /\ Get(tasks.inflight).task = "init"
    /\ IF ManagerNowRaises
       THEN UNCHANGED statuses
       ELSE store_stream_status(Get(tasks.inflight).b,
                Status(Get(tasks.inflight).api # None,
                       Get(tasks.inflight).api, now, "none"))
    /\ tasks' = [tasks EXCEPT !.inflight = None]
    /\ last' = [Outcome("init_store", Get(tasks.inflight).b, Missing, 0,
                        ManagerNowRaises)
                   EXCEPT !.report = Some(Get(tasks.inflight))]
    /\ UNCHANGED <<now, sessions, nextId, snapshots, stats, streamers,
                   subscriptions, nextSub, events, connected>>

\* the end of initialize: the poller task is created
InitializerFinishes ==
    /\ tasks.init = "running"
    /\ tasks.inflight = None
    /\ tasks' = [tasks EXCEPT !.init = "done", !.poller = "running"]
    /\ last' = Outcome("initialize", "-", Missing, 0, FALSE)
    /\ UNCHANGED <<now, sessions, nextId, snapshots, stats, statuses,
                   streamers, subscriptions, nextSub, events, connected>>

\* lifespan after the yield: the initializer is cancelled unless it is done,
\* and awaited
LifespanCancelsInitializer ==
    /\ tasks.lifespan = "up"
    /\ tasks' = [tasks EXCEPT
           !.lifespan = "awaiting_init",
           !.init = IF tasks.init = "running" THEN "cancel_requested"
                    ELSE tasks.init]
    /\ last' = Outcome("lifespan_cancels_initializer", "-", Missing, 0, FALSE)
    /\ UNCHANGED <<now, sessions, nextId, snapshots, stats, statuses,
                   streamers, subscriptions, nextSub, events, connected>>

\* the initializer resumes with CancelledError at the await it was suspended
\* in; no `except Exception` on its way catches it
InitializerCancelled ==
    /\ tasks.init = "cancel_requested"
    /\ tasks' = [tasks EXCEPT !.init = "cancelled", !.inflight = None]
    /\ last' = Outcome("initializer_cancelled", "-", Missing, 0, FALSE)
    /\ UNCHANGED <<now, sessions, nextId, snapshots, stats, statuses,
                   streamers, subscriptions, nextSub, events, connected>>

\* StreamerManager.shutdown, called once the initializer is awaited: the
\* poller, if there is one that is not done, is cancelled
ManagerShutdownCancels ==
    /\ tasks.lifespan = "awaiting_init"
    /\ tasks.init \in {"done", "cancelled"}
    /\ tasks' = [tasks EXCEPT
           !.lifespan = "awaiting_poller",
           !.poller = IF tasks.poller = "running" THEN "cancel_requested"
                      ELSE tasks.poller]
    /\ last' = Outcome("shutdown_cancels_poller", "-", Missing, 0, FALSE)
    /\ UNCHANGED <<now, sessions, nextId, snapshots, stats, statuses,
                   streamers, subscriptions, nextSub, events, connected>>

\* the poller resumes with CancelledError, which passes the `except Exception`
\* of the iteration and reaches `except asyncio.CancelledError: break`
PollerCancelled ==
    /\ tasks.poller = "cancel_requested"
    /\ tasks' = [tasks EXCEPT !.poller = "stopped", !.inflight = None]
    /\ last' = [Outcome("poller_cancelled", "-", Missing, 0, FALSE)
                   EXCEPT !.report = tasks.inflight]
    /\ UNCHANGED <<now, sessions, nextId, snapshots, stats, statuses,
                   streamers, subscriptions, nextSub, events, connected>>

\* a shutdown that does not await the poller it cancelled; C23 must reject it
ManagerShutdownReturnsAtOnce ==
    /\ tasks.lifespan = "awaiting_poller"
    /\ tasks' = [tasks EXCEPT !.lifespan = "closing"]
    /\ last' = Outcome("shutdown_returns", "-", Missing, 0, FALSE)
    /\ UNCHANGED <<now, sessions, nextId, snapshots, stats, statuses,
                   streamers, subscriptions, nextSub, events, connected>>

\* StreamerManager.shutdown returns when the awaited poller has stopped
ManagerShutdownReturns ==
    /\ tasks.lifespan = "awaiting_poller"
    /\ tasks.poller \in {"none", "stopped"}
    /\ tasks' = [tasks EXCEPT !.lifespan = "closing"]
    /\ last' = Outcome("shutdown_returns", "-", Missing, 0, FALSE)
    /\ UNCHANGED <<now, sessions, nextId, snapshots, stats, statuses,
                   streamers, subscriptions, nextSub, events, connected>>

\* storage.disconnect(), the last statement of lifespan
StorageDisconnect ==
    /\ tasks.lifespan = "closing"
    /\ tasks' = [tasks EXCEPT !.lifespan = "down"]
    /\ connected' = FALSE
    /\ last' = Outcome("storage_disconnect", "-", Missing, 0, FALSE)
    /\ UNCHANGED <<now, sessions, nextId, snapshots, stats, statuses,
                   streamers, subscriptions, nextSub, events>>

\* one active and one inactive streamer
InitTasks ==
    /\ now = 0
    /\ sessions = {}
    /\ nextId = 1
    /\ snapshots = <<>>
    /\ stats = [b \in AllBroadcasters |-> None]
    /\ statuses = [b \in AllBroadcasters |-> None]
    /\ streamers = [b \in AllBroadcasters |->
                       IF b \in Broadcasters
                       THEN Some([is_active |-> b = "b1"])
                       ELSE None]
    /\ events = <<>>
    /\ connected = TRUE
    /\ subscriptions = {}
    /\ nextSub = 1
    /\ tasks = TasksAtStart
    /\ last = Outcome("init", "-", Missing, 0, FALSE)

\* what get_stream_info answers in the task specifications
TaskApiAnswers == {None, Some(StreamData(50))}

NextShutdown ==
    \/ \E api \in TaskApiAnswers : InitializerFetch("b1", api)
    \/ InitializerStore
    \/ InitializerFinishes
    \/ \E b \in Broadcasters, api \in TaskApiAnswers : PollerFetch(b, api)
    \/ PollerStore
    \/ \E live \in BOOLEAN : StoreStreamStatus("b1", live, "none")
    \/ LifespanCancelsInitializer
    \/ InitializerCancelled
    \/ ManagerShutdownCancels
    \/ PollerCancelled
    \/ ManagerShutdownReturns
    \/ StorageDisconnect

\* a cancelled task is scheduled again by the event loop, and the lifespan
\* runs on once what it awaits is done
SpecShutdown ==
    /\ InitTasks
    /\ [][NextShutdown]_vars
    /\ WF_vars(InitializerCancelled)
    /\ WF_vars(PollerCancelled)

\* C23: on shutdown the background initializer and the poller task are
\* cancelled and both have stopped before the storage connection is closed:
\* the poller loop terminates after cancellation, and neither task writes a
\* StreamStatus or snapshot after storage has been disconnected.
C23_TasksStopBeforeDisconnect ==
    /\ [][(tasks'.lifespan = "down" /\ tasks.lifespan # "down")
             => /\ tasks.init \in {"done", "cancelled"}
                /\ tasks.poller \in {"none", "stopped"}
                /\ tasks.inflight = None]_vars
    /\ [][tasks.lifespan = "down"
             => /\ last'.op \notin {"poll_fetch", "poll_store",
                                    "init_fetch", "init_store"}
                /\ tasks'.inflight = None]_vars
    /\ (tasks.poller = "cancel_requested") ~> (tasks.poller = "stopped")
    /\ (tasks.init = "cancel_requested") ~> (tasks.init = "cancelled")

\* C23's case: storage was disconnected after a shutdown that found the
\* poller running
C23_Witness ==
    /\ tasks.lifespan = "down"
    /\ ~connected
    /\ tasks.init = "done"
    /\ tasks.poller = "stopped"

----------------------------------------------------------------------------
(* Connecting the analytics service to MongoDB (analytics.py connect) *)

DefaultMaxRetries == 5
DefaultRetryDelay == 2

\* what each attempt of a call would meet: TRUE when the ping, the database
\* access and the index creation of that attempt all succeed
AttemptResults(max_retries) == [1..max_retries -> BOOLEAN]

\* a call of connect(max_retries, retry_delay) in progress: `attempt` is the
\* loop variable, `slept` the seconds spent in asyncio.sleep
Connecting(max_retries, results) ==
    [max_retries |-> max_retries, results |-> results, attempt |-> 0,
     tried |-> 0, slept |-> 0, phase |-> "running"]

\* a connect that gives up at the first failure; C24 must reject it
connect_attempt_without_retry(c) ==
    IF c.attempt >= c.max_retries
    THEN [c EXCEPT !.phase = "returned"]
    ELSE IF c.results[c.attempt + 1]
    THEN [c EXCEPT !.tried = @ + 1, !.phase = "connected"]
    ELSE [c EXCEPT !.tried = @ + 1, !.phase = "raised"]

\* one turn of `for attempt in range(max_retries)`: return on success, raise
\* when the failed attempt is the last of the range, otherwise sleep and go
\* on; an exhausted range (max_retries = 0) falls off the end of the function
connect_attempt(c) ==
    IF c.attempt >= c.max_retries
    THEN [c EXCEPT !.phase = "returned"]
    ELSE IF c.results[c.attempt + 1]
    THEN [c EXCEPT !.tried = @ + 1, !.phase = "connected"]
    ELSE IF c.attempt = c.max_retries - 1
    THEN [c EXCEPT !.tried = @ + 1, !.phase = "raised"]
    ELSE [c EXCEPT !.tried = @ + 1, !.attempt = @ + 1,
                   !.slept = @ + DefaultRetryDelay]

InitConnect ==
    /\ now = 0
    /\ sessions = {}
    /\ nextId = 1
    /\ snapshots = <<>>
    /\ stats = [b \in AllBroadcasters |-> None]
    /\ statuses = [b \in AllBroadcasters |-> None]
    /\ streamers = [b \in AllBroadcasters |-> None]
    /\ events = <<>>
    /\ connected = FALSE
    /\ subscriptions = {}
    /\ nextSub = 1
    /\ tasks = TasksAtStart
    /\ \E max_retries \in 0..DefaultMaxRetries :
          \E results \in AttemptResults(max_retries) :
             last = [Outcome("connect", "-", max_retries, 0, FALSE)
                        EXCEPT !.report = Some(Connecting(max_retries, results))]

ConnectAttempt ==
    /\ last.op = "connect"
    /\ Get(last.report).phase = "running"
    /\ last' = [last EXCEPT
           !.report = Some(connect_attempt(Get(last.report))),
           !.raised = connect_attempt(Get(last.report)).phase = "raised"]
    /\ UNCHANGED <<now, sessions, nextId, snapshots, stats, statuses,
                   streamers, subscriptions, nextSub, events, connected, tasks>>

NextConnect == ConnectAttempt

SpecConnect == InitConnect /\ [][NextConnect]_vars

\* C24: the initial connection to the document store makes at most
\* max_retries attempts (default 5) with a fixed delay between attempts,
\* returns at the first attempt that succeeds without attempting again, and
\* raises to the caller exactly when the last allowed attempt fails.
C24_ConnectRetries ==
    last.op = "connect" =>
        LET c == Get(last.report)
        IN  /\ c.tried <= c.max_retries
            /\ c.phase = "running" =>
                  /\ c.tried = c.attempt
                  /\ c.slept = DefaultRetryDelay * c.tried
                  /\ \A i \in 1..c.tried : ~c.results[i]
            /\ c.phase = "connected" =>
                  /\ c.results[c.tried]
                  /\ \A i \in 1..(c.tried - 1) : ~c.results[i]
                  /\ c.slept = DefaultRetryDelay * (c.tried - 1)
            /\ c.phase = "raised" <=>
                  /\ c.phase # "running"
                  /\ c.max_retries >= 1
                  /\ c.tried = c.max_retries
                  /\ ~c.results[c.max_retries]
            /\ c.phase = "raised" => c.slept = DefaultRetryDelay * (c.max_retries - 1)
            /\ c.phase = "returned" => c.max_retries = 0
            /\ last.raised = (c.phase = "raised")

\* C24's case: a call with the default retries that connected at its third
\* attempt, after two failures and two delays
C24_Witness ==
    /\ last.op = "connect"
    /\ Get(last.report).max_retries = DefaultMaxRetries
    /\ Get(last.report).phase = "connected"
    /\ Get(last.report).tried = 3
    /\ Get(last.report).slept = 2 * DefaultRetryDelay

----------------------------------------------------------------------------
(* Notifications that lack a field of the event *)

\* the fields of the event the handlers subscript
BroadcasterFields ==
    {"broadcaster_user_id", "broadcaster_user_login", "broadcaster_user_name"}

ExpectedFields(type) ==
    IF type = "stream.online" THEN BroadcasterFields \cup {"started_at"}
    ELSE BroadcasterFields

\* the handler's body for an event without `field`.  The arguments of
\* StreamEvent(...) are evaluated in order: a lacking broadcaster field raises
\* KeyError there, and otherwise datetime.now(datetime.UTC) raises; either way
\* nothing has been stored.  Were the timestamp built, an online event without
\* started_at would be logged and its status stored before
\* start_stream_session subscripts the field
handle_event_lacking(type, b, field) ==
    IF ManagerNowRaises \/ field \in BroadcasterFields
    THEN UNCHANGED <<sessions, nextId, stats, statuses, events>>
    ELSE /\ Len(events) < MaxEvents
         /\ store_event("stream.online", b)
         /\ store_stream_status(b,
                Status(TRUE, Some(EventData(Missing)), now, "stream.online"))
         /\ UNCHANGED <<sessions, nextId, stats>>

\* a handler without its try: the exception reaches the caller of
\* handle_event; C25 must reject it
HandleEventLackingUnguarded(type, b, field) ==
    /\ field \in ExpectedFields(type)
    /\ handle_event_lacking(type, b, field)
    /\ last' = [Outcome("handle_event_lacking", b, Missing, 0, TRUE) EXCEPT
                   !.raised = TRUE,
                   !.report = Some([type |-> type, lacking |-> field])]
    /\ UNCHANGED <<now, snapshots, streamers, subscriptions, nextSub,
                   connected, tasks>>

\* handle_event for a stream.online or stream.offline notification whose event
\* lacks one expected field: the handler's `except Exception` logs and returns
HandleEventLacking(type, b, field) ==
    /\ field \in ExpectedFields(type)
    /\ handle_event_lacking(type, b, field)
    /\ last' = [Outcome("handle_event_lacking", b, Missing, 0, TRUE) EXCEPT
                   !.report = Some([type |-> type, lacking |-> field])]
    /\ UNCHANGED <<now, snapshots, streamers, subscriptions, nextSub,
                   connected, tasks>>

\* incomplete notifications among sessions and statuses that other operations
\* left
NextLacking ==
    \/ \E type \in {"stream.online", "stream.offline"}, b \in Broadcasters,
          field \in BroadcasterFields \cup {"started_at"} :
          HandleEventLacking(type, b, field)
    \/ \E b \in Broadcasters, live \in BOOLEAN, ev \in EventTypes :
          StoreStreamStatus(b, live, ev)
    \/ \E b \in Broadcasters, ts \in Instants : StartStreamSession(b, ts)
    \/ \E b \in Broadcasters : EndStreamSession(b)

SpecLacking == InitHttp /\ [][NextLacking]_vars

----------------------------------------------------------------------------
(* The poller and the initializer among notifications *)

\* the tasks' fetches and writes as separate steps, offline notifications and
\* stored statuses of every kind and age
NextPoll ==
    \/ TickStatus
    \/ \E api \in TaskApiAnswers : InitializerFetch("b1", api)
    \/ InitializerStore
    \/ InitializerFinishes
    \/ \E b \in Broadcasters, api \in TaskApiAnswers : PollerFetch(b, api)
    \/ PollerStore
    \/ HandleStreamOffline("b1")
    \/ \E live \in BOOLEAN, ev \in EventTypes : StoreStreamStatus("b1", live, ev)
    \/ StoreStreamStatus("b2", FALSE, "none")

SpecPoll == InitTasks /\ [][NextPoll]_vars

\* C26: an event-sourced offline wins over a concurrent poll-sourced write:
\* if a stream.offline event for a broadcaster is handled after the poller (or
\* the startup status initializer) has read that broadcaster's status and
\* fetched upstream data showing it live, but before that task writes, then
\* once both have finished the broadcaster's StreamStatus is offline.
C26_EventOfflineWinsOverPoll ==
    [][(/\ last.op = "stream.offline"
        /\ IsSome(tasks.inflight)
        /\ Get(tasks.inflight).b = last.b
        /\ Get(tasks.inflight).api # None
        /\ last'.op \in {"poll_store", "init_store"})
       => /\ statuses'[last.b] # None
          /\ ~Get(statuses'[last.b]).is_live]_vars

\* C27: in each poll cycle the poller queries upstream for exactly the active
\* broadcasters whose stored status is absent, live, or last updated more than
\* 10 minutes ago; an inactive broadcaster, and an active broadcaster whose
\* status is offline and at most 10 minutes old, is not queried and its
\* StreamStatus is left unchanged by that cycle.
C27_PollerQueriesWhoIsDue ==
    [][last'.op = "poll_fetch"
          => /\ (last'.arg = 1) <=>
                   /\ Get(streamers[last'.b]).is_active
                   /\ ShouldUpdate(statuses[last'.b])
             /\ statuses' = statuses
             /\ last'.arg = 0 => tasks'.inflight = None]_vars

\* C28: the poller appends a snapshot for a broadcaster in a cycle if and only
\* if it accepted the poll update for that broadcaster in that cycle and the
\* polled data shows a live stream; a suppressed update and an update that
\* shows no stream append no snapshot.
C28_SnapshotIffAcceptedLiveUpdate ==
    [][last'.op = "poll_store"
          => LET f == Get(tasks.inflight)
             IN  IF ~Suppressed(f.cur, f.api) /\ f.api # None
                 THEN /\ Len(snapshots') = Len(snapshots) + 1
                      /\ snapshots'[Len(snapshots')].broadcaster_id = f.b
                 ELSE snapshots' = snapshots]_vars

\* C29: the provenance recorded in a StreamStatus names the source of its last
\* update: after an accepted poll update the status is marked as poll-sourced,
\* and after an event update it is marked with that event; a poll update never
\* leaves the status marked as coming from an event.
C29_ProvenanceNamesLastUpdate ==
    [][/\ (last'.op = "poll_store"
             /\ ~Suppressed(Get(tasks.inflight).cur, Get(tasks.inflight).api))
          => /\ statuses'[last'.b] # None
             /\ Get(statuses'[last'.b]).last_event_type = "none"
       /\ (last'.op = "stream.offline")
          => /\ statuses'[last'.b] # None
             /\ Get(statuses'[last'.b]).last_event_type = "stream.offline"]_vars

----------------------------------------------------------------------------
(* The status cache and the names it is keyed by *)

\* a second spelling of b1's login, as a client may type it in
\* GET /streamers/{username}/status
OtherSpelling == "B1"

Usernames == AllBroadcasters \cup {OtherSpelling}

\* the user id get_user_by_login resolves a login to: Twitch logins are
\* matched without regard to case.  The model names a broadcaster id by its
\* canonical login
UserIdOf(username) == IF username = OtherSpelling THEN "b1" ELSE username

\* the stores keyed by every name a request can carry
InitLookup ==
    /\ now = 0
    /\ sessions = {}
    /\ nextId = 1
    /\ snapshots = <<>>
    /\ stats = [b \in AllBroadcasters |-> None]
    /\ statuses = [u \in Usernames |-> None]
    /\ streamers = [u \in Usernames |->
                       IF u \in Broadcasters THEN Some([is_active |-> TRUE])
                       ELSE None]
    /\ events = <<>>
    /\ connected = TRUE
    /\ subscriptions = {}
    /\ nextSub = 1
    /\ tasks = TasksAtStart
    /\ last = Outcome("init", "-", Missing, 0, FALSE)

\* every writer of the cache: notifications, the initializer, the poller and
\* the lookup by username, over statuses the store already holds
NextLookup ==
    \/ TickStatus
    \/ \E username \in {"b1", OtherSpelling, "b3"}, user_found \in BOOLEAN,
          api \in TaskApiAnswers : GetStreamerStatus(username, user_found, api)
    \/ HandleStreamOnline("b1", 0)
    \/ HandleStreamOffline("b1")
    \/ \E api \in TaskApiAnswers : InitializerFetch("b1", api)
    \/ InitializerStore
    \/ InitializerFinishes
    \/ \E api \in TaskApiAnswers : PollerFetch("b1", api)
    \/ PollerStore
    \/ \E live \in BOOLEAN : StoreStreamStatus("b1", live, "none")

SpecLookup == InitLookup /\ [][NextLookup]_vars

----------------------------------------------------------------------------
(* Statistics for broadcasters that are live and have none yet *)

\* the pipeline of create_stats_for_active_sessions: the open sessions whose
\* broadcaster has no row in streamer_stats ($lookup, then $size 0)
ActiveSessionsWithoutStats(sess, st) ==
    {s \in sess : IsOpen(s) /\ st[s.broadcaster_id] = None}

\* the loop's variables before its first turn
BackfillStart(st) ==
    [stats |-> st, processed |-> {}, stats_created |-> 0,
     triggers |-> [b \in AllBroadcasters |-> 0]]

\* a loop without processed_streamers, recomputing for every session found;
\* C31 must reject it
RECURSIVE backfill_loop_per_session(_, _)
backfill_loop_per_session(todo, acc) ==
    IF todo = {} THEN acc
    ELSE LET s == CHOOSE x \in todo : TRUE
             b == s.broadcaster_id
         IN  backfill_loop_per_session(todo \ {s},
                [stats |-> update_streamer_stats(acc.stats, sessions, snapshots, b),
                 processed |-> acc.processed,
                 stats_created |-> acc.stats_created + 1,
                 triggers |-> [acc.triggers EXCEPT ![b] = @ + 1]])

\* `for session in active_sessions_without_stats`: a broadcaster already in
\* processed_streamers is passed over, else _update_streamer_stats runs for
\* it, stats_created is incremented and the broadcaster is remembered.
\* triggers counts the calls of _update_streamer_stats per broadcaster
RECURSIVE backfill_loop(_, _)
backfill_loop(todo, acc) ==
    IF todo = {} THEN acc
    ELSE LET s == CHOOSE x \in todo : TRUE
             b == s.broadcaster_id
         IN  IF b \in acc.processed
             THEN backfill_loop(todo \ {s}, acc)
             ELSE backfill_loop(todo \ {s},
                    [stats |-> update_streamer_stats(acc.stats, sessions, snapshots, b),
                     processed |-> acc.processed \cup {b},
                     stats_created |-> acc.stats_created + 1,
                     triggers |-> [acc.triggers EXCEPT ![b] = @ + 1]])

\* create_stats_for_active_sessions with no exception from the store; it
\* returns stats_created
CreateStatsForActiveSessions ==
    /\ LET done == backfill_loop(ActiveSessionsWithoutStats(sessions, stats),
                                 BackfillStart(stats))
       IN  /\ stats' = done.stats
           /\ last' = [Outcome("create_stats_for_active_sessions", "-",
                               Missing, done.stats_created, FALSE)
                          EXCEPT !.report = Some([triggers |-> done.triggers])]
    /\ UNCHANGED <<now, sessions, nextId, snapshots, statuses, streamers,
                   subscriptions, nextSub, events, connected, tasks>>

\* sessions opened and closed, rows recomputed on demand, and the backfill
NextBackfill ==
    \/ Tick
    \/ \E b \in Broadcasters, ts \in Instants : StartStreamSession(b, ts)
    \/ \E b \in Broadcasters : EndStreamSession(b)
    \/ \E b \in Broadcasters : RecalculateStreamerStats(b)
    \/ CreateStatsForActiveSessions

SpecBackfill == Init /\ [][NextBackfill]_vars

\* C31: after the backfill for stat-less active sessions completes without a
\* storage error, every broadcaster that has an open session has a
\* StreamerStats row; the recomputation is triggered at most once per
\* broadcaster in a run, broadcasters that already had a row are not
\* recomputed, and the returned count is the number of distinct broadcasters
\* recomputed.
C31_BackfillCoversOpenSessions ==
    [][last'.op = "create_stats_for_active_sessions"
          => LET triggers == Get(last'.report).triggers
             IN  /\ \A b \in AllBroadcasters :
                       /\ OpenSessionsOf(sessions', b) # {} => stats'[b] # None
                       /\ triggers[b] <= 1
                       /\ stats[b] # None =>
                             (triggers[b] = 0 /\ stats'[b] = stats[b])
                       /\ triggers[b] = 0 => stats'[b] = stats[b]
                 /\ last'.ret =
                       Cardinality({b \in AllBroadcasters : triggers[b] > 0})]_vars

\* C31's case: a run that recomputed once for a broadcaster with two open
\* sessions and no row
C31_Witness ==
    /\ last.op = "create_stats_for_active_sessions"
    /\ last.ret = 1
    /\ \E b \in Broadcasters :
          /\ Get(last.report).triggers[b] = 1
          /\ Cardinality(OpenSessionsOf(sessions, b)) = 2
          /\ stats[b] # None

----------------------------------------------------------------------------
(* Calls of the analytics service interleaved at their storage calls *)

\* _update_streamer_stats up to the answers of its two aggregations: the row
\* it will write is fixed by what it has read (nothing when the broadcaster
\* has no session)
UpdateStatsRead(b) ==
    /\ tasks.pending = None
    /\ tasks' = [tasks EXCEPT !.pending =
           Some([op |-> "update_streamer_stats", b |-> b,
                 row |-> IF SessionsOf(sessions, b) = {} THEN None
                         ELSE Some(StreamerStatsRow(sessions, snapshots, b))])]
    /\ last' = Outcome("update_streamer_stats_read", b, Missing, 0, FALSE)
    /\ UNCHANGED <<now, sessions, nextId, snapshots, stats, statuses,
                   streamers, subscriptions, nextSub, events, connected>>

\* the upsert that ends _update_streamer_stats: the row built from what was
\* read is $set, whatever the collection holds by now
update_stats_write(p) ==
    stats' = IF p.row = None THEN stats ELSE [stats EXCEPT ![p.b] = p.row]

UpdateStatsWrite ==
    /\ IsSome(tasks.pending)
    /\ Get(tasks.pending).op = "update_streamer_stats"
    /\ update_stats_write(Get(tasks.pending))
    /\ tasks' = [tasks EXCEPT !.pending = None]
    /\ last' = [Outcome("update_streamer_stats_write", Get(tasks.pending).b,
                        Missing, 0, FALSE)
                   EXCEPT !.report = Some(Get(tasks.pending))]
    /\ UNCHANGED <<now, sessions, nextId, snapshots, statuses, streamers,
                   subscriptions, nextSub, events, connected>>

\* end_stream_session up to the answer of find_one: ended_at was taken from
\* the clock when the call began, the session found is the latest open one
EndSessionFind(b) ==
    /\ tasks.pending = None
    /\ \E s \in LatestOpen(sessions, b) :
          tasks' = [tasks EXCEPT !.pending =
              Some([op |-> "end_stream_session", b |-> b, id |-> s.id,
                    started_at |-> s.started_at, ended_at |-> now])]
    /\ last' = Outcome("end_stream_session_find", b, now, 0, FALSE)
    /\ UNCHANGED <<now, sessions, nextId, snapshots, stats, statuses,
                   streamers, subscriptions, nextSub, events, connected>>

\* update_one({"_id": ...}, {"$set": ...}) applied to the collection: the
\* filter names the document by _id alone
set_by_id(sess, snaps, p) ==
    {IF x.id = p.id
     THEN [CloseSession(snaps, x, p.ended_at) EXCEPT !.updated_at = now]
     ELSE x : x \in sess}

\* the rest of end_stream_session: the update of the session found, then
\* _update_streamer_stats
EndSessionUpdate ==
    /\ IsSome(tasks.pending)
    /\ Get(tasks.pending).op = "end_stream_session"
    /\ sessions' = set_by_id(sessions, snapshots, Get(tasks.pending))
    /\ stats' = update_streamer_stats(stats, sessions', snapshots,
                                      Get(tasks.pending).b)
    /\ tasks' = [tasks EXCEPT !.pending = None]
    /\ last' = [Outcome("end_stream_session_update", Get(tasks.pending).b,
                        Get(tasks.pending).ended_at, 0, FALSE)
                   EXCEPT !.report = Some(Get(tasks.pending))]
    /\ UNCHANGED <<now, nextId, snapshots, statuses, streamers,
                   subscriptions, nextSub, events, connected>>

\* a sweep up to the answer of its find: the old open sessions it will delete
SweepFind(max_age_hours) ==
    /\ tasks.pending = None
    /\ tasks' = [tasks EXCEPT !.pending =
           Some([op |-> "sweep", max_age_hours |-> max_age_hours,
                 found |-> {s.id : s \in OldOpenSessions(sessions,
                                        CutoffTime(max_age_hours))}])]
    /\ last' = Outcome("sweep_find", "-", max_age_hours, 0, FALSE)
    /\ UNCHANGED <<now, sessions, nextId, snapshots, stats, statuses,
                   streamers, subscriptions, nextSub, events, connected>>

\* the loop of the sweep: delete_one({"_id": ...}) for each session found;
\* the return value counts the deletes that removed a document
SweepDelete ==
    /\ IsSome(tasks.pending)
    /\ Get(tasks.pending).op = "sweep"
    /\ sessions' = {s \in sessions : s.id \notin Get(tasks.pending).found}
    /\ tasks' = [tasks EXCEPT !.pending = None]
    /\ last' = [Outcome("sweep_delete", "-", Get(tasks.pending).max_age_hours,
                        Cardinality(sessions \ sessions'), FALSE)
                   EXCEPT !.report = Some(Get(tasks.pending))]
    /\ UNCHANGED <<now, nextId, snapshots, stats, statuses, streamers,
                   subscriptions, nextSub, events, connected>>

\* one call of the service between two of its storage calls, among calls that
\* run from start to end
NextRace ==
    \/ Tick
    \/ \E b \in Broadcasters, ts \in Instants : StartStreamSession(b, ts)
    \/ \E b \in Broadcasters : EndStreamSession(b)
    \/ \E b \in Broadcasters : UpdateStatsRead(b)
    \/ UpdateStatsWrite
    \/ \E b \in Broadcasters : EndSessionFind(b)
    \/ EndSessionUpdate
    \/ SweepFind(FallbackAgeHours)
    \/ SweepDelete

SpecRace == InitHttp /\ [][NextRace]_vars

\* C32: when a session close and a forced recomputation (or two session
\* closes) for the same broadcaster interleave at their storage calls, then
\* once both have completed the stored StreamerStats still counts every closed
\* session of that broadcaster: a recomputation that read the sessions before
\* the other operation's close never overwrites the newer result.
C32_StaleRecomputeNeverWins ==
    [][(/\ last.op = "end_stream_session"
        /\ last.ret > 0
        /\ last'.op = "update_streamer_stats_write"
        /\ last'.b = last.b)
       => stats'[last.b] = Some(StreamerStatsRow(sessions', snapshots', last.b))]_vars

\* C35: a closed session is immutable: once a session's ended_at has been
\* set, its ended_at and duration_minutes never change again under any
\* sequence or interleaving of events, including two offline events for the
\* same broadcaster that are handled concurrently.
C35_ClosedSessionIsImmutable ==
    [][\A s \in sessions :
          ~IsOpen(s) =>
             \A t \in sessions' :
                t.id = s.id => /\ t.ended_at = s.ended_at
                               /\ t.duration_minutes = s.duration_minutes]_vars

\* C36: a sweep never deletes a closed session, also when an offline event
\* closes the session between the sweep's query for old open sessions and its
\* delete of that session.
C36_SweepSparesClosedSessions ==
    [][last'.op = "sweep_delete"
          => \A s \in sessions :
                ~IsOpen(s) => \E t \in sessions' : t.id = s.id]_vars

----------------------------------------------------------------------------
(* Cancelling the poller inside an iteration *)

\* the iteration's writes are two awaited calls, store_stream_status (line
\* 376) and capture_stream_snapshot (line 380); "poller_snapshot" marks a
\* poll whose status is stored and whose snapshot is still to be inserted
SnapshotDue(f) == Inflight("poller_snapshot", f.b, f.cur, f.api)

\* an iteration whose timestamps can be built: the status is stored and, for a
\* live answer, the snapshot is left to the next await; C33 must reject it
poller_store_status_working(f) ==
    IF Suppressed(f.cur, f.api)
    THEN /\ UNCHANGED statuses
         /\ tasks' = [tasks EXCEPT !.inflight = None]
    ELSE /\ store_stream_status(f.b,
                Status(f.api # None, f.api, now,
                       IF f.cur = None THEN "none"
                       ELSE Get(f.cur).last_event_type))
         /\ tasks' = [tasks EXCEPT !.inflight =
                IF f.api # None THEN Some(SnapshotDue(f)) ELSE None]

\* the iteration from the answer of get_stream_info to its first write:
\* lines 353 and 369 evaluate datetime.now(datetime.UTC), so the iteration
\* ends in its except clause with nothing stored
poller_store_status(f) ==
    IF ManagerNowRaises
    THEN /\ UNCHANGED statuses
         /\ tasks' = [tasks EXCEPT !.inflight = None]
    ELSE poller_store_status_working(f)

\* the poller resumes at its next await: after the fetch it stores the status,
\* after the status it inserts the snapshot
PollerStep ==
    /\ tasks.poller = "running"
    /\ IsSome(tasks.inflight)
    /\ Get(tasks.inflight).task \in {"poller", "poller_snapshot"}
    /\ IF Get(tasks.inflight).task = "poller"
       THEN /\ poller_store_status(Get(tasks.inflight))
            /\ UNCHANGED snapshots
       ELSE /\ capture_stream_snapshot(Get(tasks.inflight).b, TRUE,
                    Get(Get(tasks.inflight).api).viewer_count)
            /\ tasks' = [tasks EXCEPT !.inflight = None]
            /\ UNCHANGED statuses
    /\ last' = [Outcome("poll_step", Get(tasks.inflight).b, Missing, 0,
                        ManagerNowRaises)
                   EXCEPT !.report = tasks.inflight]
    /\ UNCHANGED <<now, sessions, nextId, stats, streamers, subscriptions,
                   nextSub, events, connected>>

\* poll cycles of b1 and a shutdown that may cancel the poller at any await
NextCancel ==
    \/ TickStatus
    \/ InitializerFinishes
    \/ \E api \in TaskApiAnswers : PollerFetch("b1", api)
    \/ PollerStep
    \/ \E live \in BOOLEAN : StoreStreamStatus("b1", live, "none")
    \/ LifespanCancelsInitializer
    \/ InitializerCancelled
    \/ ManagerShutdownCancels
    \/ PollerCancelled
    \/ ManagerShutdownReturns
    \/ StorageDisconnect

SpecCancel == InitTasks /\ [][NextCancel]_vars

----------------------------------------------------------------------------
(* Who writes the sessions *)

\* the operations that insert, update or delete a document of stream_sessions
SessionWriters ==
    {"stream.online", "stream.offline", "start_stream_session",
     "end_stream_session", "end_old_active_sessions",
     "trigger_fallback_detection"}

\* the poll cycle, the start of the poller, the snapshot capture and the
\* recomputations of StreamerStats
SessionReaders ==
    {"poll_fetch", "poll_store", "initialize", "capture_stream_snapshot", "recalculate_streamer_stats",
     "create_stats_for_active_sessions"}

\* every operation that touches sessions, snapshots, statistics or statuses
\* the instants of the ownership specification: the start, and 25 h later
OwnershipInstants == {0, 90000}

TickOwnership ==
    /\ Advance(OwnershipInstants)
    /\ last' = Outcome("tick", "-", Missing, 0, FALSE)
    /\ UNCHANGED <<sessions, nextId, snapshots, stats, statuses, streamers,
                   subscriptions, nextSub, events, connected, tasks>>

NextOwnership ==
    \/ TickOwnership
    \/ StartStreamSession("b1", 0)
    \/ EndStreamSession("b1")
    \/ HandleStreamOffline("b1")
    \/ EndOldActiveSessions(DefaultMaxAgeHours)
    \/ TriggerFallbackDetection
    \/ InitializerFinishes
    \/ PollerFetch("b1", Some(StreamData(50)))
    \/ PollerStore
    \/ CaptureStreamSnapshot("b1", TRUE, 50)
    \/ RecalculateStreamerStats("b1")
    \/ CreateStatsForActiveSessions

SpecOwnership == InitTasks /\ [][NextOwnership]_vars

\* C34: the poller and the statistics aggregator never write sessions: no poll
\* cycle, startup status initialization, snapshot capture or StreamerStats
\* recomputation creates, closes, modifies or deletes a StreamSession;
\* sessions change only through online events, offline events and the two
\* sweeps.
C34_OnlyEventsAndSweepsWriteSessions ==
    [][/\ last'.op \in SessionReaders => sessions' = sessions
       /\ sessions' # sessions => last'.op \in SessionWriters]_vars

\* C34's case: a recomputation has written the row of a broadcaster that has
\* an open session, after a poll cycle has run
C34_Witness ==
    /\ last.op = "recalculate_streamer_stats"
    /\ stats[last.b] # None
    /\ OpenSessionsOf(sessions, last.b) # {}
    /\ tasks.poller = "running"

----------------------------------------------------------------------------
(* A live status that upstream contradicts for good *)

\* both streamers active, each with a live status stored at 0 by a poll or by
\* a stream.online event; the poller runs
InitFlip ==
    /\ now = 0
    /\ sessions = {}
    /\ nextId = 1
    /\ snapshots = <<>>
    /\ stats = [b \in AllBroadcasters |-> None]
    /\ \E ev \in [Broadcasters -> {"none", "stream.online"}],
          viewers \in [Broadcasters -> {50, 120}] :
          statuses = [b \in AllBroadcasters |->
                         IF b \in Broadcasters
                         THEN Some(Status(TRUE, Some(StreamData(viewers[b])),
                                          0, ev[b]))
                         ELSE None]
    /\ streamers = [b \in AllBroadcasters |->
                       IF b \in Broadcasters THEN Some([is_active |-> TRUE])
                       ELSE None]
    /\ events = <<>>
    /\ connected = TRUE
    /\ subscriptions = {}
    /\ nextSub = 1
    /\ tasks = [TasksAtStart EXCEPT !.init = "done", !.poller = "running"]
    /\ last = Outcome("init", "-", Missing, 0, FALSE)

\* poll cycles in which get_stream_info finds no stream, and no notification
NextFlip ==
    \/ TickStatus
    \/ \E b \in Broadcasters : PollerFetch(b, None)
    \/ PollerStore

\* the clock advances, every cycle comes to every streamer, and an iteration
\* that has its answer goes on
SpecFlip ==
    /\ InitFlip
    /\ [][NextFlip]_vars
    /\ WF_vars(TickStatus)
    /\ WF_vars(PollerStore)
    /\ \A b \in Broadcasters : SF_vars(PollerFetch(b, None))

\* C37: if an active broadcaster's stored status is live, the upstream poll
\* reports it offline in every cycle from some point on, and no event for it
\* arrives, then the poller eventually stores an offline status for it:
\* suppressed polls do not refresh last_updated, so the status ages past 15
\* minutes and is flipped.
C37_ContradictedLiveStatusFlips ==
    \A b \in Broadcasters :
        <>(statuses[b] # None /\ ~Get(statuses[b]).is_live)

----------------------------------------------------------------------------
(* A validation pass and the listing of upstream subscriptions *)

\* what get_eventsub_subscriptions would meet during a pass
Listings == {"answers", "fails"}

\* a pass that reaches validate_subscription and believes a failed listing:
\* the subscriptions of an active streamer are taken for invalid and deleted,
\* and the streamer is stored inactive; C38 must reject it
validate_pass_believing(listing) ==
    IF listing = "fails" /\ ActiveStreamers # {}
    THEN \E b \in ActiveStreamers :
            /\ subscriptions' = {s \in subscriptions : s.b # b}
            /\ streamers' = [streamers EXCEPT ![b] = Some([is_active |-> FALSE])]
            /\ UNCHANGED nextSub
    ELSE UNCHANGED <<streamers, subscriptions, nextSub>>

\* validate_and_fix_subscriptions while the listing answers or fails: the pass
\* ends at its first read of streamer.online_subscription_id, before
\* validate_subscription is called, so the listing is never requested
validate_pass(listing) == validate_and_fix_subscriptions

ValidatePass(listing) ==
    /\ validate_pass(listing)
    /\ last' = [Outcome("validate_and_fix_subscriptions", "-", Missing, 0,
                        ActiveStreamers # {})
                   EXCEPT !.report = Some([listing |-> listing])]
    /\ UNCHANGED <<now, sessions, nextId, snapshots, stats, statuses, events,
                   connected, tasks>>

\* passes among handshakes and revocations of the upstream service
NextValidate ==
    \/ \E listing \in Listings : ValidatePass(listing)
    \/ \E id \in 1..MaxSubs : UpstreamEnables(id)
    \/ \E id \in 1..MaxSubs : UpstreamRevokes(id)
    \/ \E b \in Broadcasters :
          CreateSubscriptionsForStreamer(b, "created", FALSE, "error", FALSE)

SpecValidate == InitSubs /\ [][NextValidate]_vars

----------------------------------------------------------------------------
(* An offline event for a broadcaster with several open sessions *)

\* exactly one session of b, one with the latest started_at among its open
\* ones, went from open to closed, and every other session is as it was
ClosedLatestOnly(b, before, after) ==
    \E s \in LatestOpen(before, b) :
       \E t \in after :
          /\ t.id = s.id
          /\ ~IsOpen(t)
          /\ after \ {t} = before \ {s}

\* C39: when a broadcaster has more than one open session, handling one
\* offline event closes exactly one of them, the one with the latest
\* started_at, and leaves every other session of that broadcaster, open or
\* closed, unchanged.
C39_OfflineClosesLatestOnly ==
    [][(/\ last'.op = "stream.offline"
        /\ Cardinality(OpenSessionsOf(sessions, last'.b)) > 1)
       => ClosedLatestOnly(last'.b, sessions, sessions')]_vars

----------------------------------------------------------------------------
(* The status cache and the tracked streamers *)

\* every writer of the cache and the removal, for a tracked streamer (b1) and
\* an untracked user (b3), over statuses the store holds for tracked streamers
NextTracked ==
    \/ \E username \in {"b1", "b3"}, user_found \in BOOLEAN,
          api \in TaskApiAnswers : GetStreamerStatus(username, user_found, api)
    \/ \E b \in {"b1", "b3"} : RemoveStreamer(b)
    \/ \E b \in {"b1", "b3"} : HandleStreamOnline(b, 0)
    \/ \E b \in {"b1", "b3"} : HandleStreamOffline(b)
    \/ InitializerFinishes
    \/ \E api \in TaskApiAnswers : PollerFetch("b1", api)
    \/ PollerStore
    \/ \E live \in BOOLEAN : StoreStreamStatus("b1", live, "none")

SpecTracked == InitTasks /\ [][NextTracked]_vars

====
